---- MODULE Spec2Model ----
(***************************************************************************)
(* A model of the EasyLocal++ local-search framework: tabu list manager,   *)
(* bimodal runners, the local-search solver, the multimodal neighbourhood  *)
(* explorers (set union, cartesian product) and the parallel neighbourhood *)
(* explorer.  Every component has its own specification; the variables of  *)
(* the other components stay at their idle values.                         *)
(***************************************************************************)
EXTENDS Integers, Sequences, FiniteSets, TLC

VARIABLES
    tlm,        \* a stand-alone TabuListManager object
    hist,       \* ghost: the insertions into tlm, with the ticks seen since
    cf,         \* the input: the cost of every state of the search space
    alg,        \* the runner attached to the solver: "TS", "HC" or "SA"
    sv,         \* the AbstractLocalSearch solver object
    rn,         \* the runner object
    pc,         \* position of the solver inside Solve()
    timeout,    \* the timeout of SyncRun has expired
    visited,    \* ghost: the states the run has visited
    ne,         \* a CartesianProduct explorer: its bases, relation and state
    moves,      \* the tuple of ActiveMoves handed to the explorer
    cp,         \* the call of the explorer in progress and its locals
    produced,   \* ghost: the chains returned since the last FirstMove
    delta,      \* the last result of DeltaCostFunctionComponents
    su,         \* a SetUnion explorer, its tuple of moves and its last call
    par,        \* a selection of the ParallelNeighborhoodExplorer
    sf,         \* a SelectFirst of the ParallelNeighborhoodExplorer
    cs,         \* cost structures and the results of their operators
    ss,         \* a call of StateManager::SampleState
    sa,         \* a SimulatedAnnealing runner and its run
    tb,         \* a time-based or iteration-based annealing runner and its run
    sub,        \* a SetUnion explorer under construction, with its bias
    sc,         \* the calls of Solve() and Resolve() on one solver and its timeout flag
    ts,         \* a CartesianProduct call over its chain temp_states
    td          \* a TupleDispatcher check over a tuple of moves

varsTL == <<tlm, hist>>
varsRun == <<cf, alg, sv, rn, pc, timeout, visited>>
varsCP == <<ne, moves, cp, produced, delta>>
varsSU == <<su>>
varsPar == <<par>>
varsAux == <<sf, cs, ss, sa, tb, sub, sc, ts, td>>
varsExp == <<ne, moves, cp, produced, delta, su, par, sf, cs, ss, sa, tb, sub, sc, ts, td>>

vars == <<tlm, hist, cf, alg, sv, rn, pc, timeout, visited,
          ne, moves, cp, produced, delta, su, par, sf, cs, ss, sa, tb, sub, sc, ts, td>>

(***************************************************************************)
(* Bounds of the model.                                                    *)
(***************************************************************************)
MaxTenure == 5      \* largest tenure given to SetLength
MaxIter == 7        \* cap on the iteration counter of a tabu list
NumMoves == 2       \* moves of one neighbourhood
MaxCost == 2        \* state costs range over 0..MaxCost

Moves == 1..NumMoves
Costs == 0..MaxCost
Deltas == (0 - MaxCost)..MaxCost

(***************************************************************************)
(* TabuListManager                                                         *)
(***************************************************************************)
LessThan(a, b) == a < b

Inverse(mv1, mv2) == mv1 = mv2

TabuListItem(mv, out) == [elem |-> mv, out_iter |-> out]

\* the constructor: tenure 0..1, iteration 0; the two costs of the
\* aspiration function are left uninitialised
DefaultMinTenure == 0
DefaultMaxTenure == 1

TabuListManager(curr, best) ==
    [min_tenure |-> DefaultMinTenure, max_tenure |-> DefaultMaxTenure,
     iter |-> 0, tlist |-> <<>>,
     current_state_cost |-> curr, best_state_cost |-> best]

SetLength(tl, min, max) == [tl EXCEPT !.min_tenure = min, !.max_tenure = max]

PurgeListStrict(tl) ==
    [tl EXCEPT !.tlist = SelectSeq(tl.tlist, LAMBDA p : ~(p.out_iter < tl.iter))]

PurgeList(tl) ==
    [tl EXCEPT !.tlist = SelectSeq(tl.tlist, LAMBDA p : ~(p.out_iter <= tl.iter))]

UpdateIteration(tl) == [PurgeList(tl) EXCEPT !.iter = tl.iter + 1]

UpdateAspirationFunction(tl, curr, best) ==
    [tl EXCEPT !.current_state_cost = curr, !.best_state_cost = best]

\* the values Random::Int(min_tenure, max_tenure) can return; the call is
\* outside the contract of Random::Int when min_tenure > max_tenure, and any
\* tenure may come out of it
Tenures(tl, largest) ==
    IF tl.min_tenure <= tl.max_tenure THEN tl.min_tenure..tl.max_tenure
    ELSE 0..largest

InsertIntoListLate(tl, mv, tenure) ==
    UpdateIteration([tl EXCEPT !.tlist = <<TabuListItem(mv, tl.iter + tenure + 1)>> \o tl.tlist])

\* tenure is the value drawn by Random::Int(min_tenure, max_tenure)
InsertIntoList(tl, mv, tenure) ==
    UpdateIteration([tl EXCEPT !.tlist = <<TabuListItem(mv, tl.iter + tenure)>> \o tl.tlist])

InsertMove(tl, mv, tenure, curr, best) ==
    UpdateAspirationFunction(InsertIntoList(tl, mv, tenure), curr, best)

ListMember(tl, mv) == \E i \in 1..Len(tl.tlist) : Inverse(mv, tl.tlist[i].elem)

Aspiration(tl, mv_cost) ==
    LessThan(tl.current_state_cost + mv_cost, tl.best_state_cost)

ProhibitedMove(tl, mv, mv_cost) == ~Aspiration(tl, mv_cost) /\ ListMember(tl, mv)

Clean(tl) == [tl EXCEPT !.tlist = <<>>, !.iter = 0]

(***************************************************************************)
(* Ghost history of a tabu list: one record per insertion, holding the     *)
(* tenure drawn and the number of UpdateIteration calls since the          *)
(* insertion completed.  Records are forgotten once they are older than    *)
(* their tenure.                                                           *)
(***************************************************************************)
HistTick(h) ==
    {[r EXCEPT !.age = r.age + 1] : r \in {q \in h : q.age < q.tenure}}

HistInsert(h, mv, tenure) ==
    HistTick(h) \cup {[elem |-> mv, tenure |-> tenure, age |-> 0]}

HistLive(h, mv) == \E r \in h : Inverse(mv, r.elem) /\ r.age < r.tenure

(***************************************************************************)
(* Idle values of the components a specification does not exercise.        *)
(***************************************************************************)
TLIdle ==
    /\ tlm = TabuListManager(0, 0)
    /\ hist = {}

RunIdle ==
    /\ cf = <<>>
    /\ alg = "none"
    /\ sv = <<>>
    /\ rn = <<>>
    /\ pc = "idle"
    /\ timeout = FALSE
    /\ visited = {}

CPIdle ==
    /\ ne = <<>>
    /\ moves = <<>>
    /\ cp = <<>>
    /\ produced = <<>>
    /\ delta = 0

SUIdle == su = <<>>

ParIdle == par = <<>>

AuxIdle == sf = <<>> /\ cs = <<>> /\ ss = <<>> /\ sa = <<>> /\ tb = <<>> /\ sub = <<>> /\ sc = <<>> /\ ts = <<>> /\ td = <<>>

ExpIdle == CPIdle /\ SUIdle /\ ParIdle /\ AuxIdle

(***************************************************************************)
(* Specification of a stand-alone tabu list (scenario S3 of the spec).     *)
(***************************************************************************)
TLInit ==
    /\ \E curr \in {0, MaxCost}, best \in {0, MaxCost}, min \in 0..MaxTenure :
         \E max \in {min} \cup {m \in {DefaultMaxTenure} : min = DefaultMinTenure} :
            tlm = SetLength(TabuListManager(curr, best), min, max)
    /\ hist = {}

TLInsertMove ==
    /\ tlm.iter < MaxIter
    /\ \E mv \in Moves, tenure \in Tenures(tlm, MaxTenure),
          curr \in {0, MaxCost}, best \in {0, MaxCost} :
         /\ best <= curr
         /\ tlm' = InsertMove(tlm, mv, tenure, curr, best)
         /\ hist' = HistInsert(hist, mv, tenure)
    /\ UNCHANGED <<varsRun, varsExp>>

TLUpdateIteration ==
    /\ tlm.iter < MaxIter
    /\ tlm' = UpdateIteration(tlm)
    /\ hist' = HistTick(hist)
    /\ UNCHANGED <<varsRun, varsExp>>

TLClean ==
    /\ tlm.iter > 0
    /\ tlm' = Clean(tlm)
    /\ hist' = {}
    /\ UNCHANGED <<varsRun, varsExp>>

TLNext == TLInsertMove \/ TLUpdateIteration \/ TLClean

InitTabuList == TLInit /\ RunIdle /\ ExpIdle

SpecTabuList == InitTabuList /\ [][TLNext]_vars

\* C1: a move inserted with tenure tau is prohibited (unless aspired) at the
\* tau queries that follow the insertion, one per iteration, and is no
\* longer prohibited at the next one: the list holds a move exactly when
\* some insertion of it has seen fewer than tau iterations.
C1_TabuTenure ==
    \A mv \in Moves, mv_cost \in Deltas :
        ProhibitedMove(tlm, mv, mv_cost)
            <=> (~Aspiration(tlm, mv_cost) /\ HistLive(hist, mv))

\* an insertion with the largest tenure has just expired: its move is free
C1_Witness ==
    \E r \in hist :
        /\ r.tenure = MaxTenure
        /\ r.age = r.tenure
        /\ tlm.iter = r.tenure + 1
        /\ ~ListMember(tlm, r.elem)
        /\ \E mv_cost \in Deltas : ~Aspiration(tlm, mv_cost)

(***************************************************************************)
(* The problem the runners work on: a state is a pair of coordinates on a  *)
(* square grid; a move of the first neighbourhood shifts the first         *)
(* coordinate by mv places (cyclically), a move of the second one shifts   *)
(* the second coordinate.  The input is the cost of every grid point.      *)
(***************************************************************************)
MaxIdle == 3            \* largest max_idle_iteration given to a runner
MaxRunTenure == 2       \* largest tenure of the runner's tabu lists
MaxTemperature == 2     \* cooling steps from start to minimum temperature

Trap == << <<1, 2, 2>>,
           <<2, 1, 0>>,
           <<2, 2, 2>> >>

Bowl == << <<2, 1, 2>>,
           <<1, 0, 1>>,
           <<2, 1, 2>> >>

Ridge == << <<0, 2, 1>>,
            <<2, 2, 0>>,
            <<1, 1, 1>> >>

Landscapes == {Trap, Bowl, Ridge}

Side == Len(Trap)
States == (1..Side) \X (1..Side)
GridMoves == 1..(Side - 1)
MOVE_1 == "MOVE_1"
MOVE_2 == "MOVE_2"

CostFunction(st) == cf[st[1]][st[2]]

Shift(x, mv) == ((x - 1 + mv) % Side) + 1

MakeMove(type, st, mv) ==
    IF type = MOVE_1
    THEN <<Shift(st[1], mv), st[2]>>
    ELSE <<st[1], Shift(st[2], mv)>>

DeltaCostFunction(type, st, mv) ==
    CostFunction(MakeMove(type, st, mv)) - CostFunction(st)

LessOrEqualThan(a, b) == a <= b

SetMin(S) == CHOOSE x \in S : \A y \in S : x <= y

(***************************************************************************)
(* StateManager and AbstractLocalSearch                                    *)
(***************************************************************************)
RECURSIVE SampleStateFrom(_, _, _)
\* the loop of SampleState over the remaining random draws
SampleStateFrom(draws, s, best_state) ==
    IF s > Len(draws) THEN best_state
    ELSE SampleStateFrom(draws, s + 1,
            IF CostFunction(draws[s]) < CostFunction(best_state)
            THEN draws[s] ELSE best_state)

SampleState(draws) == SampleStateFrom(draws, 2, draws[1])

DefaultInitTrials == 1

InitializeSolve(s) == [s EXCEPT !.p_best_state = 0, !.p_current_state = 0]

\* draws: the states RandomState yields; greedy: the state GreedyState builds
FindInitialState(s, random_initial_state, draws, greedy) ==
    LET st == IF random_initial_state THEN SampleState(draws) ELSE greedy
    IN [s EXCEPT !.p_current_state = st,
                 !.current_state_cost = CostFunction(st),
                 !.p_best_state = st,
                 !.best_state_cost = CostFunction(st)]

OutputState(st) == <<"solution", st>>

SolveResultOfCurrent(s) ==
    [s EXCEPT !.p_out = OutputState(s.p_current_state),
              !.result = CostFunction(s.p_current_state)]

\* the tail of Solve(): serialise the best state, return it with its cost
SolveResult(s) ==
    [s EXCEPT !.p_out = OutputState(s.p_best_state),
              !.result = CostFunction(s.p_best_state)]

Solver ==
    [p_current_state |-> 0, p_best_state |-> 0,
     current_state_cost |-> 0, best_state_cost |-> 0,
     p_out |-> <<>>, result |-> 0, thrown |-> "none"]

\* where Solve() ends when an exception reaches its boundary.  Solve() is
\* declared throw (ParameterNotSet, IncorrectParameterValue): one of these
\* types goes on to the caller, any other type makes the run-time call
\* std::unexpected(), which terminates the program
SolveThrows(exception) ==
    IF exception \in {"ParameterNotSet", "IncorrectParameterValue"}
    THEN "failed" ELSE "terminated"

\* StateManager::GreedyState as the framework defines it, for a state manager
\* that does not override it
GreedyState == "std::runtime_error"

(***************************************************************************)
(* The runners.  A runner object holds the fields of MoveRunner /          *)
(* BimodalMoveRunner, the two tabu list managers of BimodalTabuSearch and  *)
(* the temperature of SimulatedAnnealing.  The temperature is kept as the  *)
(* number of coolings left before it falls to min_temperature.             *)
(***************************************************************************)
Runner(tl1, tl2, idle, start_temp, sampled) ==
    [current_state |-> 0, best_state |-> 0,
     current_state_cost |-> 0, best_state_cost |-> 0,
     number_of_iterations |-> 0, iteration_of_best |-> 0,
     current_move_type |-> MOVE_1,
     current_move1 |-> 0, current_move2 |-> 0,
     current_move_cost1 |-> 0, current_move_cost2 |-> 0,
     pm1 |-> tl1, pm2 |-> tl2, max_idle_iteration |-> idle,
     start_temperature |-> start_temp, temperature |-> 0,
     neighbors_sampled |-> sampled]

MoveRunner_InitializeRun(r, st) ==
    [r EXCEPT !.current_state = st, !.current_state_cost = CostFunction(st),
              !.best_state = st, !.best_state_cost = CostFunction(st),
              !.number_of_iterations = 0, !.iteration_of_best = 0]

MoveRunner_UpdateIterationCounter(r) ==
    [r EXCEPT !.number_of_iterations = @ + 1]

\* apply the selected move and add its cost to the cost of the current state
MoveRunner_MakeMove(r) ==
    IF r.current_move_type = MOVE_1
    THEN [r EXCEPT !.current_state = MakeMove(MOVE_1, @, r.current_move1),
                   !.current_state_cost = @ + r.current_move_cost1]
    ELSE [r EXCEPT !.current_state = MakeMove(MOVE_2, @, r.current_move2),
                   !.current_state_cost = @ + r.current_move_cost2]

\* the type SelectMove settles on; coin is the value of Random::Int(0,1)
SelectType(cost1, cost2, coin) ==
    IF LessThan(cost1, cost2) THEN MOVE_1
    ELSE IF LessThan(cost2, cost1) THEN MOVE_2
    ELSE IF coin = 0 THEN MOVE_1 ELSE MOVE_2

(* BimodalTabuSearch *)
BTS_InitializeRun(r, st) ==
    [MoveRunner_InitializeRun(r, st) EXCEPT !.pm1 = Clean(@), !.pm2 = Clean(@)]

\* the moves BestMove may return, each with its cost: the non-prohibited
\* moves of least cost; <<0, MaxCost + 1>> when every move is prohibited
BestMove(type, st, tl) ==
    LET acc == {mv \in GridMoves :
                  ~ProhibitedMove(tl, mv, DeltaCostFunction(type, st, mv))}
        best == {mv \in acc : \A o \in acc :
                  DeltaCostFunction(type, st, mv) <= DeltaCostFunction(type, st, o)}
    IN IF acc = {} THEN {<<0, MaxCost + 1>>}
       ELSE {<<mv, DeltaCostFunction(type, st, mv)>> : mv \in best}

BTS_SelectMove(r, b1, b2, coin) ==
    [r EXCEPT !.current_move1 = b1[1], !.current_move_cost1 = b1[2],
              !.current_move2 = b2[1], !.current_move_cost2 = b2[2],
              !.current_move_type = SelectType(b1[2], b2[2], coin)]

BTS_StopCriterion(r) ==
    r.number_of_iterations - r.iteration_of_best >= r.max_idle_iteration

BTS_AcceptableMove(r) == TRUE

BTS_StoreBest(r) ==
    IF LessThan(r.current_state_cost, r.best_state_cost)
    THEN [r EXCEPT !.iteration_of_best = r.number_of_iterations,
                   !.best_state = r.current_state,
                   !.best_state_cost = r.current_state_cost]
    ELSE r

\* (a variant that leaves the list of the other move type alone)
BTS_StoreMoveOwnListOnly(r, tenure) ==
    BTS_StoreBest(
        IF r.current_move_type = MOVE_1
        THEN [r EXCEPT !.pm1 = InsertMove(@, r.current_move1, tenure,
                                   r.current_state_cost, r.best_state_cost)]
        ELSE [r EXCEPT !.pm2 = InsertMove(@, r.current_move2, tenure,
                                   r.current_state_cost, r.best_state_cost)])

BTS_StoreMove(r, tenure) ==
    BTS_StoreBest(
        IF r.current_move_type = MOVE_1
        THEN [r EXCEPT !.pm1 = InsertMove(@, r.current_move1, tenure,
                                   r.current_state_cost, r.best_state_cost),
                       !.pm2 = UpdateIteration(@)]
        ELSE [r EXCEPT !.pm2 = InsertMove(@, r.current_move2, tenure,
                                   r.current_state_cost, r.best_state_cost),
                       !.pm1 = UpdateIteration(@)])

(* BimodalHillClimbing *)
BHC_SelectMove(r, mv1, mv2, coin) ==
    LET cost1 == DeltaCostFunction(MOVE_1, r.current_state, mv1)
        cost2 == DeltaCostFunction(MOVE_2, r.current_state, mv2)
    IN [r EXCEPT !.current_move1 = mv1, !.current_move_cost1 = cost1,
                 !.current_move2 = mv2, !.current_move_cost2 = cost2,
                 !.current_move_type = SelectType(cost1, cost2, coin)]

BHC_StopCriterion(r) ==
    r.number_of_iterations - r.iteration_of_best >= r.max_idle_iteration

BHC_AcceptableMove(r) ==
    IF r.current_move_type = MOVE_1
    THEN LessOrEqualThan(r.current_move_cost1, 0)
    ELSE LessOrEqualThan(r.current_move_cost2, 0)

\* the else branch binds to the inner if: nothing is stored for MOVE_2
BHC_StoreMove(r) ==
    IF r.current_move_type = MOVE_1
    THEN IF LessThan(r.current_move_cost1, 0)
         THEN [r EXCEPT !.iteration_of_best = r.number_of_iterations,
                        !.best_state_cost = r.current_state_cost]
         ELSE IF LessThan(r.current_move_cost2, 0)
              THEN [r EXCEPT !.iteration_of_best = r.number_of_iterations,
                             !.best_state_cost = r.current_state_cost]
              ELSE r
    ELSE r

BHC_TerminateRun(r) ==
    [r EXCEPT !.best_state = r.current_state,
              !.best_state_cost = r.current_state_cost]

(* SimulatedAnnealing *)
\* variance: the temperature computed from the sampled states when no start
\* temperature is given
SA_InitializeRun(r, st, variance) ==
    [MoveRunner_InitializeRun(r, st) EXCEPT
        !.temperature = IF r.start_temperature > 0 THEN r.start_temperature
                        ELSE variance]

SA_SelectMove(r, mv) ==
    [r EXCEPT !.current_move_type = MOVE_1, !.current_move1 = mv,
              !.current_move_cost1 = DeltaCostFunction(MOVE_1, r.current_state, mv)]

SA_StoreMoveFlipped(r) ==
    IF LessOrEqualThan(r.best_state_cost, r.current_state_cost)
    THEN [r EXCEPT !.best_state = r.current_state,
                   !.best_state_cost = r.current_state_cost,
                   !.iteration_of_best = r.number_of_iterations]
    ELSE r

SA_StoreMove(r) ==
    IF LessOrEqualThan(r.current_state_cost, r.best_state_cost)
    THEN LET r1 == [r EXCEPT !.best_state = r.current_state]
         IN IF LessOrEqualThan(r1.current_state_cost, r1.best_state_cost)
            THEN [r1 EXCEPT !.best_state_cost = r1.current_state_cost,
                            !.iteration_of_best = r1.number_of_iterations]
            ELSE r1
    ELSE r

SA_StopCriterion(r) == r.temperature <= 0

\* temperature *= cooling_rate: one cooling less is left
SA_UpdateIterationCounter(r) ==
    LET r1 == MoveRunner_UpdateIterationCounter(r)
    IN IF r1.number_of_iterations % r1.neighbors_sampled = 0
       THEN [r1 EXCEPT !.temperature = IF @ > 0 THEN @ - 1 ELSE 0]
       ELSE r1

\* lucky: Random::Double_Unit_Uniform() fell below exp(-cost/temperature)
SA_AcceptableMove(r, lucky) ==
    LessOrEqualThan(r.current_move_cost1, 0) \/ (lucky /\ r.temperature > 0)

(***************************************************************************)
(* Specification of Solve(): the solver finds an initial state, runs its   *)
(* runner (iteration by iteration, until the stop criterion holds or the   *)
(* timeout expires) and returns the best state with its cost.              *)
(***************************************************************************)
MaxSampled == 2         \* largest neighbors_sampled given to the annealing

StopCriterion(r) ==
    CASE alg = "TS" -> BTS_StopCriterion(r)
      [] alg = "HC" -> BHC_StopCriterion(r)
      [] OTHER -> SA_StopCriterion(r)

\* what Go() hands back to the solver when the runner has terminated
GoFinish(s, r) ==
    [s EXCEPT !.p_current_state = r.current_state,
              !.current_state_cost = r.current_state_cost,
              !.p_best_state = r.best_state,
              !.best_state_cost = r.best_state_cost]

RunInit ==
    /\ cf \in Landscapes
    /\ alg \in {"TS", "HC", "SA"}
    /\ sv = Solver
    /\ \E g1 \in {0, MaxCost}, g2 \in {MaxCost},
          min \in 0..MaxRunTenure, idle \in {1, MaxIdle},
          start_temp \in 0..MaxTemperature, sampled \in 1..MaxSampled :
         \* SetLength stores any pair: min_tenure may exceed max_tenure
         \E max \in (min..MaxRunTenure) \cup {m \in {min - 1} : m >= 0} :
            rn = CASE alg = "TS" ->
                        Runner(SetLength(TabuListManager(g1, g2), min, max),
                               SetLength(TabuListManager(g2, g1), min, max),
                               idle, 0, 1)
                   [] alg = "HC" ->
                        Runner(TabuListManager(0, 0), TabuListManager(0, 0),
                               idle, 0, 1)
                   [] OTHER ->
                        Runner(TabuListManager(0, 0), TabuListManager(0, 0),
                               0, start_temp, sampled)
    /\ pc = "idle"
    /\ timeout = FALSE
    /\ visited = {}

\* Solve() with random_initial_state unset on a state manager without a
\* GreedyState of its own: FindInitialState throws before Go()
SolveWithoutGreedy ==
    /\ pc = "idle"
    /\ sv' = [InitializeSolve(sv) EXCEPT !.thrown = GreedyState]
    /\ pc' = SolveThrows(GreedyState)
    /\ UNCHANGED <<cf, alg, rn, timeout, visited, tlm, hist, varsExp>>

SolveStart ==
    /\ pc = "idle"
    /\ \E random \in BOOLEAN, draws \in [1..DefaultInitTrials -> States],
          greedy \in States :
         sv' = FindInitialState(InitializeSolve(sv), random, draws, greedy)
    /\ pc' = "go"
    /\ UNCHANGED <<cf, alg, rn, timeout, visited, tlm, hist, varsExp>>

GoInitializeRun ==
    /\ pc = "go"
    /\ \E variance \in 0..MaxTemperature :
         rn' = CASE alg = "TS" -> BTS_InitializeRun(rn, sv.p_current_state)
                 [] alg = "HC" -> MoveRunner_InitializeRun(rn, sv.p_current_state)
                 [] OTHER -> SA_InitializeRun(rn, sv.p_current_state, variance)
    /\ visited' = {sv.p_current_state}
    /\ pc' = "run"
    /\ UNCHANGED <<cf, alg, sv, timeout, tlm, hist, varsExp>>

Running == pc = "run" /\ ~timeout /\ ~StopCriterion(rn)

TSIteration ==
    /\ Running /\ alg = "TS"
    /\ \E b1 \in BestMove(MOVE_1, rn.current_state, rn.pm1),
          b2 \in BestMove(MOVE_2, rn.current_state, rn.pm2),
          coin \in 0..1 :
         LET r1 == BTS_SelectMove(rn, b1, b2, coin)
             tl == IF r1.current_move_type = MOVE_1 THEN r1.pm1 ELSE r1.pm2
         IN /\ b1[1] # 0 \/ b2[1] # 0
            /\ BTS_AcceptableMove(r1)
            /\ \E tenure \in Tenures(tl, MaxRunTenure) :
                 rn' = MoveRunner_UpdateIterationCounter(
                          BTS_StoreMove(MoveRunner_MakeMove(r1), tenure))
    /\ visited' = visited \cup {rn'.current_state}
    /\ UNCHANGED <<cf, alg, sv, pc, timeout, tlm, hist, varsExp>>

HCIteration ==
    /\ Running /\ alg = "HC"
    /\ \E mv1 \in GridMoves, mv2 \in GridMoves, coin \in 0..1 :
         LET r1 == BHC_SelectMove(rn, mv1, mv2, coin)
         IN rn' = MoveRunner_UpdateIterationCounter(
                     IF BHC_AcceptableMove(r1)
                     THEN BHC_StoreMove(MoveRunner_MakeMove(r1))
                     ELSE r1)
    /\ visited' = visited \cup {rn'.current_state}
    /\ UNCHANGED <<cf, alg, sv, pc, timeout, tlm, hist, varsExp>>

SAIteration ==
    /\ Running /\ alg = "SA"
    /\ \E mv \in GridMoves, lucky \in BOOLEAN :
         LET r1 == SA_SelectMove(rn, mv)
         IN rn' = SA_UpdateIterationCounter(
                     IF SA_AcceptableMove(r1, lucky)
                     THEN SA_StoreMove(MoveRunner_MakeMove(r1))
                     ELSE r1)
    /\ visited' = visited \cup {rn'.current_state}
    /\ UNCHANGED <<cf, alg, sv, pc, timeout, tlm, hist, varsExp>>

RaiseTimeout ==
    /\ pc = "run" /\ ~timeout
    /\ timeout' = TRUE
    /\ UNCHANGED <<cf, alg, sv, rn, pc, visited, tlm, hist, varsExp>>

GoTerminateRun ==
    /\ pc = "run" /\ (timeout \/ StopCriterion(rn))
    /\ rn' = IF alg = "HC" THEN BHC_TerminateRun(rn) ELSE rn
    /\ sv' = GoFinish(sv, rn')
    /\ pc' = "ran"
    /\ UNCHANGED <<cf, alg, timeout, visited, tlm, hist, varsExp>>

SolveReturn ==
    /\ pc = "ran"
    /\ sv' = SolveResult(sv)
    /\ pc' = "done"
    /\ UNCHANGED <<cf, alg, rn, timeout, visited, tlm, hist, varsExp>>

RunNext ==
    \/ SolveStart \/ SolveWithoutGreedy \/ GoInitializeRun
    \/ TSIteration \/ HCIteration \/ SAIteration
    \/ RaiseTimeout \/ GoTerminateRun \/ SolveReturn

InitSolve == RunInit /\ TLIdle /\ ExpIdle

SpecSolve == InitSolve /\ [][RunNext]_vars

\* C2: whenever the runner's current cost plus the cost of a move is below
\* the runner's best cost, the tabu list asked about that move does not
\* prohibit it.
C2_AspirationOverrides ==
    (pc = "run" /\ alg = "TS") =>
        \A mv \in GridMoves :
            /\ LessThan(rn.current_state_cost
                          + DeltaCostFunction(MOVE_1, rn.current_state, mv),
                        rn.best_state_cost)
                 => ~ProhibitedMove(rn.pm1, mv,
                        DeltaCostFunction(MOVE_1, rn.current_state, mv))
            /\ LessThan(rn.current_state_cost
                          + DeltaCostFunction(MOVE_2, rn.current_state, mv),
                        rn.best_state_cost)
                 => ~ProhibitedMove(rn.pm2, mv,
                        DeltaCostFunction(MOVE_2, rn.current_state, mv))

\* C3: during a run no step of a runner (an iteration or the termination)
\* raises best_state_cost.
C3_BestMonotone ==
    [][pc = "run" => rn'.best_state_cost <= rn.best_state_cost]_vars

\* the best cost has improved on the initial one and the runner has since
\* moved to a worse state
C3_Witness ==
    /\ pc = "run"
    /\ rn.number_of_iterations > 1
    /\ rn.best_state_cost < sv.best_state_cost
    /\ rn.best_state_cost < rn.current_state_cost

\* C4: when Solve() has returned, the returned cost is the least cost of the
\* states the run visited and the returned solution is the serialisation of
\* a visited state of that cost.
C4_SolveReturnsBest ==
    pc = "done" =>
        /\ sv.result = SetMin({CostFunction(st) : st \in visited})
        /\ \E st \in visited :
              sv.p_out = OutputState(st) /\ CostFunction(st) = sv.result

\* Solve() has returned after a timeout, from a state other than the best
C4_Witness ==
    /\ pc = "done"
    /\ timeout
    /\ Cardinality(visited) > 2
    /\ CostFunction(rn.current_state) > sv.result
    /\ \E st \in visited : CostFunction(st) > CostFunction(rn.current_state)

(***************************************************************************)
(* The base neighbourhood explorers handed to the multimodal explorers.    *)
(* A state is a vector of NumBits bits and a move names the bit it flips.  *)
(* "flip" may flip any bit, "set" only a bit that is 0 and "clear" only a  *)
(* bit that is 1, so the last two neighbourhoods depend on the state.  A   *)
(* base operation that finds no move yields <<>> (FirstMove and RandomMove *)
(* throw EmptyNeighborhood, NextMove returns false), else <<mv>>.          *)
(***************************************************************************)
NumBits == 3        \* width of a state
MaxModality == 2    \* largest number of base explorers in a composite

BitStates == [1..NumBits -> {0, 1}]
Kinds == {"flip", "set", "clear"}

Neighborhood(kind, s) ==
    CASE kind = "flip" -> DOMAIN s
      [] kind = "set" -> {i \in DOMAIN s : s[i] = 0}
      [] kind = "clear" -> {i \in DOMAIN s : s[i] = 1}

Base_FirstMove(kind, s) ==
    IF Neighborhood(kind, s) = {} THEN <<>>
    ELSE <<SetMin(Neighborhood(kind, s))>>

Base_NextMove(kind, s, mv) ==
    LET later == {i \in Neighborhood(kind, s) : i > mv}
    IN  IF later = {} THEN <<>> ELSE <<SetMin(later)>>

Base_RandomMove(kind, s) ==
    IF Neighborhood(kind, s) = {} THEN {<<>>}
    ELSE {<<i>> : i \in Neighborhood(kind, s)}

Base_MakeMove(s, mv) == [s EXCEPT ![mv] = 1 - s[mv]]

\* base explorer i charges (i + 1) * mv for setting bit mv and refunds it
\* for clearing the bit
Base_DeltaCostFunction(i, s, mv) ==
    (i + 1) * (IF s[mv] = 0 THEN mv ELSE 0 - mv)

(***************************************************************************)
(* ActiveMove and the MoveDispatcher helpers.  Tuple positions are counted *)
(* from 0 as in the code; position i is element i + 1 of the sequence.     *)
(***************************************************************************)
ActiveMove(mv, active) == [move |-> mv, active |-> active]

\* std::tuple value-initialises its elements: first move, flag false
FreshMoves(length) == [i \in 1..length |-> ActiveMove(1, FALSE)]

ActiveMoveEqual(mv1, mv2) ==
    IF ~mv1.active /\ ~mv2.active THEN TRUE
    ELSE IF mv1.active # mv2.active THEN FALSE
    ELSE mv1.move = mv2.move

set_activity_at(level, ms, value) == [ms EXCEPT ![level + 1].active = value]

\* the source of the assignment is read from the target as well
copy_move_at(level, target, source) ==
    [target EXCEPT ![level + 1] = target[level + 1]]

equal_at(level, moves_1, moves_2) ==
    ActiveMoveEqual(moves_1[level + 1], moves_2[level + 1])

\* the mutation of are_related that relates every pair
are_related_always(level, ms, related_funcs) == TRUE

\* the related functions a caller may register with AddRelatedFunction
Related(f, mv1, mv2) ==
    CASE f = "distinct" -> mv1 # mv2
      [] f = "ascending" -> mv1 < mv2

\* no related function registered: every pair is related
are_related(level, ms, related_funcs) ==
    IF related_funcs = "none" THEN TRUE
    ELSE Related(related_funcs, ms[level + 1].move, ms[level + 2].move)

(***************************************************************************)
(* CartesianProductNeighborhoodExplorer.  An explorer e has the kinds of   *)
(* its bases, its related functions and the state st it is called with.    *)
(* The locals of the call in progress are kept in a record; one step of a  *)
(* call is one pass through the body of the `loop:` of the code.           *)
(***************************************************************************)
CP_Locals(fn, status, e, cur, backtracking) ==
    [fn |-> fn, status |-> status, cur |-> cur, backtracking |-> backtracking,
     states |-> [i \in 1..Len(e.kinds) |-> e.st],
     initial_moves |-> FreshMoves(Len(e.kinds)),
     initial_set |-> [i \in 1..Len(e.kinds) |-> FALSE]]

\* the test of the while and of cur == -1 that follows a pass
CP_Exit(c) ==
    IF c.cur = Len(c.states) THEN [c EXCEPT !.status = "returned"]
    ELSE IF c.cur = 0 - 1
         THEN [c EXCEPT !.status = IF c.fn = "NextMove" THEN "false" ELSE "empty"]
         ELSE c

CP_Backtrack(c, ms) ==
    [cp |-> CP_Exit([c EXCEPT !.backtracking = TRUE, !.cur = c.cur - 1]),
     moves |-> set_activity_at(c.cur, ms, FALSE)]

CP_Advance(c, ms) ==
    [cp |-> CP_Exit([c EXCEPT !.backtracking = FALSE,
                              !.states[c.cur + 1] =
                                  Base_MakeMove(c.states[c.cur + 1], ms[c.cur + 1].move),
                              !.cur = c.cur + 1]),
     moves |-> set_activity_at(c.cur, ms, TRUE)]

\* states[cur] = cur > 0 ? states[cur - 1] : st
CP_ResetState(e, c) ==
    [c EXCEPT !.states[c.cur + 1] = IF c.cur > 0 THEN c.states[c.cur] ELSE e.st]

\* while (cur > 0 && !are_related(cur - 1, ...)) next_move(states[cur]):
\* <<ms>> when the loop is left at its test, <<>> when next_move fails
RECURSIVE CP_SeekRelated(_, _, _, _)
CP_SeekRelated(e, cur, s, ms) ==
    IF ~(cur > 0 /\ ~are_related(cur - 1, ms, e.related_funcs)) THEN <<ms>>
    ELSE LET next == Base_NextMove(e.kinds[cur + 1], s, ms[cur + 1].move)
         IN  IF next = <<>> THEN <<>>
             ELSE CP_SeekRelated(e, cur, s, [ms EXCEPT ![cur + 1].move = next[1]])

\* the body of the loop of FirstMove and of NextMove
CP_Loop(e, c0, ms) ==
    LET c == CP_ResetState(e, c0)
        cur == c.cur
        gen == IF c.backtracking
               THEN Base_NextMove(e.kinds[cur + 1], c.states[cur + 1], ms[cur + 1].move)
               ELSE Base_FirstMove(e.kinds[cur + 1], e.st)
        found == IF gen = <<>> THEN <<>>
                 ELSE CP_SeekRelated(e, cur, c.states[cur + 1],
                                     [ms EXCEPT ![cur + 1].move = gen[1]])
    IN  IF found = <<>> THEN CP_Backtrack(c, ms) ELSE CP_Advance(c, found[1])

CP_FirstMove(e) == CP_Locals("FirstMove", "running", e, 0, FALSE)

CP_NextMove(e) == CP_Locals("NextMove", "running", e, Len(e.kinds) - 1, TRUE)

CP_RandomMove(e) == CP_Locals("RandomMove", "running", e, 0, FALSE)

\* next_move on states[cur], and first_move on st when it fails; <<>> when
\* that first_move throws EmptyNeighborhood
CP_Wrap(e, cur, s, ms) ==
    LET next == Base_NextMove(e.kinds[cur + 1], s, ms[cur + 1].move)
        mv == IF next = <<>> THEN Base_FirstMove(e.kinds[cur + 1], e.st) ELSE next
    IN  IF mv = <<>> THEN <<>> ELSE <<[ms EXCEPT ![cur + 1].move = mv[1]]>>

\* the wrapping search of RandomMove.  It leaves at its test ("related"),
\* by the comparison with initial_moves ("initial"), by an exception of
\* first_move ("empty"), or not at all ("never": the move at cur is one the
\* loop has tested before, and nothing else changes in the loop)
RECURSIVE CP_SeekRelatedWrapping(_, _, _, _, _, _)
CP_SeekRelatedWrapping(e, cur, s, ms, initial_moves, seen) ==
    IF ~(cur > 0 /\ ~are_related(cur - 1, ms, e.related_funcs))
    THEN [exit |-> "related", moves |-> ms]
    ELSE IF ms[cur + 1].move \in seen THEN [exit |-> "never", moves |-> ms]
    ELSE LET w == CP_Wrap(e, cur, s, ms)
         IN  IF w = <<>> THEN [exit |-> "empty", moves |-> ms]
             ELSE IF equal_at(cur, w[1], initial_moves)
                  THEN [exit |-> "initial", moves |-> w[1]]
                  ELSE CP_SeekRelatedWrapping(e, cur, s, w[1], initial_moves,
                                              seen \cup {ms[cur + 1].move})

\* the body of the loop of RandomMove; draw is the result of random_move
CP_RandomLoop(e, c0, ms, draw) ==
    LET c == CP_ResetState(e, c0)
        cur == c.cur
        s == c.states[cur + 1]
        drawn == [ms EXCEPT ![cur + 1].move = draw[1]]
        c1 == IF c.initial_set[cur + 1] THEN c
              ELSE [c EXCEPT !.initial_moves = copy_move_at(cur, c.initial_moves, drawn),
                             !.initial_set[cur + 1] = TRUE]
        w == CP_Wrap(e, cur, s, ms)
        r == IF ~c.backtracking
             THEN CP_SeekRelatedWrapping(e, cur, s, drawn, c1.initial_moves, {})
             ELSE IF w = <<>> THEN [exit |-> "empty", moves |-> ms]
             ELSE IF equal_at(cur, w[1], c.initial_moves)
                  THEN [exit |-> "initial", moves |-> w[1]]
                  ELSE CP_SeekRelatedWrapping(e, cur, s, w[1], c.initial_moves, {})
        cr == IF c.backtracking THEN c ELSE c1
    IN  IF ~c.backtracking /\ draw = <<>> THEN CP_Backtrack(c, ms)
        ELSE CASE r.exit = "related" -> CP_Advance(cr, r.moves)
               [] r.exit = "initial" -> CP_Backtrack(cr, r.moves)
               [] r.exit = "empty" ->
                    IF c.backtracking
                    THEN [cp |-> [cr EXCEPT !.status = "empty"], moves |-> r.moves]
                    ELSE CP_Backtrack(cr, r.moves)
               [] r.exit = "never" ->
                    [cp |-> [cr EXCEPT !.status = "spinning"], moves |-> r.moves]

RECURSIVE CP_MakeMoveUpTo(_, _, _)
CP_MakeMoveUpTo(st, ms, n) ==
    IF n = 0 THEN st ELSE Base_MakeMove(CP_MakeMoveUpTo(st, ms, n - 1), ms[n].move)

CP_MakeMove(st, ms) == CP_MakeMoveUpTo(st, ms, Len(ms))

\* the mutation of the delta cost that evaluates every move on st
RECURSIVE CP_DeltaCostOnInput(_, _, _)
CP_DeltaCostOnInput(st, ms, n) ==
    IF n = 0 THEN [result |-> 0, state |-> st]
    ELSE LET before == CP_DeltaCostOnInput(st, ms, n - 1)
         IN  [result |-> before.result
                         + Base_DeltaCostFunction(n - 1, st, ms[n].move),
              state |-> st]

\* result and states[i] after the first n passes of the for loop
RECURSIVE CP_DeltaCostUpTo(_, _, _)
CP_DeltaCostUpTo(st, ms, n) ==
    IF n = 0 THEN [result |-> 0, state |-> st]
    ELSE LET before == CP_DeltaCostUpTo(st, ms, n - 1)
         IN  [result |-> before.result
                         + Base_DeltaCostFunction(n - 1, before.state, ms[n].move),
              state |-> Base_MakeMove(before.state, ms[n].move)]

CP_DeltaCostFunctionComponents(st, ms) == CP_DeltaCostUpTo(st, ms, Len(ms)).result

(***************************************************************************)
(* The specification of the CartesianProduct explorer: a caller holds one  *)
(* tuple of moves and calls FirstMove, NextMove, RandomMove and            *)
(* DeltaCostFunctionComponents on it, for a fixed input state.             *)
(***************************************************************************)
CPInit ==
    /\ ne \in [kinds : UNION {[1..n -> Kinds] : n \in 1..MaxModality},
               related_funcs : {"none", "distinct", "ascending"},
               st : BitStates]
    /\ moves = FreshMoves(Len(ne.kinds))
    /\ cp = CP_Locals("none", "idle", ne, 0, FALSE)
    /\ produced = [from_first |-> FALSE, chains |-> <<>>]
    /\ delta = <<>>

Chain(ms) == [i \in 1..Len(ms) |-> ms[i].move]

CPCallFirstMove ==
    /\ cp.status \in {"idle", "returned", "false", "empty"}
    /\ cp' = CP_FirstMove(ne)
    /\ produced' = [from_first |-> TRUE, chains |-> <<>>]
    /\ delta' = <<>>
    /\ UNCHANGED <<ne, moves, varsTL, varsRun, varsSU, varsPar, varsAux>>

CPCallNextMove ==
    /\ cp.status = "returned"
    /\ cp' = CP_NextMove(ne)
    /\ delta' = <<>>
    /\ UNCHANGED <<ne, moves, produced, varsTL, varsRun, varsSU, varsPar, varsAux>>

CPCallRandomMove ==
    /\ cp.status \in {"idle", "returned", "false", "empty"}
    /\ cp' = CP_RandomMove(ne)
    /\ produced' = [from_first |-> FALSE, chains |-> <<>>]
    /\ delta' = <<>>
    /\ UNCHANGED <<ne, moves, varsTL, varsRun, varsSU, varsPar, varsAux>>

CPLoop ==
    /\ cp.status = "running"
    /\ cp.fn \in {"FirstMove", "NextMove"}
    /\ LET r == CP_Loop(ne, cp, moves)
       IN  /\ cp' = r.cp
           /\ moves' = r.moves
           /\ produced' = IF r.cp.status = "returned" /\ produced.from_first
                          THEN [produced EXCEPT !.chains = Append(@, Chain(r.moves))]
                          ELSE produced
    /\ UNCHANGED <<ne, delta, varsTL, varsRun, varsSU, varsPar, varsAux>>

CPRandomLoop ==
    /\ cp.status = "running"
    /\ cp.fn = "RandomMove"
    /\ \E draw \in IF cp.backtracking \/ cp.cur < 0 THEN {<<>>}
                   ELSE Base_RandomMove(ne.kinds[cp.cur + 1],
                                        CP_ResetState(ne, cp).states[cp.cur + 1]) :
          LET r == CP_RandomLoop(ne, cp, moves, draw)
          IN  /\ cp' = r.cp
              /\ moves' = r.moves
    /\ UNCHANGED <<ne, produced, delta, varsTL, varsRun, varsSU, varsPar, varsAux>>

CPDeltaCost ==
    /\ cp.status = "returned"
    /\ delta = <<>>
    /\ delta' = <<CP_DeltaCostFunctionComponents(ne.st, moves)>>
    /\ UNCHANGED <<ne, moves, cp, produced, varsTL, varsRun, varsSU, varsPar, varsAux>>

CPNext ==
    \/ CPCallFirstMove
    \/ CPCallNextMove
    \/ CPCallRandomMove
    \/ CPLoop
    \/ CPRandomLoop
    \/ CPDeltaCost

InitCP == CPInit /\ TLIdle /\ RunIdle /\ SUIdle /\ ParIdle /\ AuxIdle

SpecCP == InitCP /\ [][CPNext]_vars

(***************************************************************************)
(* Properties of the CartesianProduct explorer.                            *)
(***************************************************************************)
\* the chains of the neighbourhood: move i is a move of base i on the state
\* reached by the moves before it, and consecutive moves are related
ChainsOf(e) ==
    {ch \in [1..Len(e.kinds) -> 1..NumBits] :
        \A i \in 1..Len(e.kinds) :
            /\ ch[i] \in Neighborhood(e.kinds[i],
                   CP_MakeMoveUpTo(e.st, [k \in 1..Len(ch) |-> ActiveMove(ch[k], TRUE)], i - 1))
            /\ i > 1 /\ e.related_funcs # "none" =>
                   Related(e.related_funcs, ch[i - 1], ch[i])}

\* C5: every chain that FirstMove, RandomMove or NextMove of the
\* CartesianProduct explorer returns has each move related to the next one
C5_ChainsRelated ==
    cp.status = "returned" =>
        \A i \in 1..(Len(moves) - 1) :
            ne.related_funcs # "none" =>
                Related(ne.related_funcs, moves[i].move, moves[i + 1].move)

C5_Witness ==
    /\ cp.status = "returned"
    /\ cp.fn = "NextMove"
    /\ ne.related_funcs = "distinct"
    /\ Len(moves) = MaxModality
    /\ moves[1].move = NumBits
    /\ moves[1].move # moves[2].move

\* C6: FirstMove followed by NextMove until it returns false produces every
\* chain of the neighbourhood exactly once, and FirstMove throws
\* EmptyNeighborhood only when there is no chain
C6_EnumerationExact ==
    produced.from_first /\ cp.status \in {"false", "empty"} =>
        /\ {produced.chains[i] : i \in 1..Len(produced.chains)} = ChainsOf(ne)
        /\ Len(produced.chains) = Cardinality(ChainsOf(ne))

\* C7: DeltaCostFunctionComponents of a chain is the sum of the delta costs
\* of its moves, move i evaluated by base i on the input state with the
\* moves before it applied
C7_DeltaCostThreaded ==
    delta # <<>> =>
        LET RECURSIVE sum(_)
            sum(n) == IF n = 0 THEN 0
                      ELSE sum(n - 1)
                           + Base_DeltaCostFunction(n - 1,
                                 CP_MakeMoveUpTo(ne.st, moves, n - 1), moves[n].move)
        IN  delta[1] = sum(Len(moves))

C7_Witness ==
    /\ delta # <<>>
    /\ Len(moves) = MaxModality
    /\ moves[1].move = moves[2].move
    /\ ne.st[moves[1].move] = 0
    /\ delta[1] < 0

(***************************************************************************)
(* SetUnionNeighborhoodExplorer.  A call returns the tuple of moves it     *)
(* leaves and how it ends: "ok" (FirstMove and RandomMove return, NextMove *)
(* returns true), "false" (NextMove returns false), "empty" (it throws     *)
(* EmptyNeighborhood) or "error" (get_first_active throws logic_error).    *)
(***************************************************************************)
set_all_activity(ms, value) == [i \in DOMAIN ms |-> [ms[i] EXCEPT !.active = value]]

RECURSIVE get_first_active(_, _)
get_first_active(ms, level) ==
    IF level = Len(ms) THEN <<>>
    ELSE IF ms[level + 1].active THEN <<level>>
    ELSE get_first_active(ms, level + 1)

\* for (; i < Modality(); i++) try first_move at i, of FirstMove and NextMove
RECURSIVE SU_FirstMoveFrom(_, _, _)
SU_FirstMoveFrom(e, ms, i) ==
    IF i >= Len(e.kinds) THEN [ends |-> "none", moves |-> ms]
    ELSE LET mv == Base_FirstMove(e.kinds[i + 1], e.st)
         IN  IF mv # <<>>
             THEN [ends |-> "ok",
                   moves |-> set_activity_at(i, [ms EXCEPT ![i + 1].move = mv[1]], TRUE)]
             ELSE SU_FirstMoveFrom(e, set_activity_at(i, ms, FALSE), i + 1)

\* the explorer of part_002 first sets every move inactive
SU_FirstMove(e, ms) ==
    LET r == SU_FirstMoveFrom(e, IF e.version = "part_002"
                                 THEN set_all_activity(ms, FALSE) ELSE ms, 0)
    IN  IF r.ends = "none" THEN [r EXCEPT !.ends = "empty"] ELSE r

\* NextMove that stays within the active base
SU_NextMoveWithinBase(e, ms) ==
    LET first == get_first_active(ms, 0)
        i == first[1]
        next == Base_NextMove(e.kinds[i + 1], e.st, ms[i + 1].move)
    IN  IF first = <<>> THEN [ends |-> "error", moves |-> ms]
        ELSE IF next # <<>>
             THEN [ends |-> "ok",
                   moves |-> set_activity_at(i, [ms EXCEPT ![i + 1].move = next[1]], TRUE)]
             ELSE [ends |-> "false", moves |-> set_activity_at(i, ms, FALSE)]

SU_NextMove(e, ms) ==
    LET first == get_first_active(ms, 0)
        i == first[1]
        next == Base_NextMove(e.kinds[i + 1], e.st, ms[i + 1].move)
        r == SU_FirstMoveFrom(e, set_activity_at(i, ms, FALSE), i + 1)
    IN  IF first = <<>> THEN [ends |-> "error", moves |-> ms]
        ELSE IF next # <<>>
             THEN [ends |-> "ok",
                   moves |-> set_activity_at(i, [ms EXCEPT ![i + 1].move = next[1]], TRUE)]
             ELSE IF r.ends = "none" THEN [r EXCEPT !.ends = "false"] ELSE r

\* the bases in the order RandomMove tries them: selected .. Modality() - 1,
\* then 0 .. selected - 1; the explorer of part_002 tries the selected one only
SU_RandomOrder(e, selected) ==
    IF e.version = "part_002" THEN <<selected>>
    ELSE [k \in 1..Len(e.kinds) |-> (selected + k - 1) % Len(e.kinds)]

\* the passes of the two for loops of RandomMove from the k-th base of the
\* order on; draw[i + 1] is what random_move of base i would draw
RECURSIVE SU_RandomMoveFrom(_, _, _, _, _)
SU_RandomMoveFrom(e, ms, order, k, draw) ==
    IF k > Len(order) THEN [ends |-> "empty", moves |-> ms]
    ELSE LET i == order[k]
         IN  IF draw[i + 1] # <<>>
             THEN [ends |-> "ok",
                   moves |-> set_activity_at(i, [ms EXCEPT ![i + 1].move = draw[i + 1][1]], TRUE)]
             ELSE SU_RandomMoveFrom(e, set_activity_at(i, ms, FALSE), order, k + 1, draw)

SU_RandomMove(e, ms, selected, draw) ==
    SU_RandomMoveFrom(e, set_all_activity(ms, FALSE), SU_RandomOrder(e, selected), 1, draw)

(***************************************************************************)
(* The specification of the SetUnion explorer: a caller holds one tuple of *)
(* moves and calls FirstMove, RandomMove and NextMove on it.  The class    *)
(* has two versions in the sources, the one of the helpers header and the  *)
(* one of part_002.  call and selected record the last call; trail is the  *)
(* sequence of <<base, move>> an enumeration has yielded since FirstMove.  *)
(***************************************************************************)
SU_Versions == {"helpers", "part_002"}

\* the move a tuple of moves stands for: its first active component
SU_Yielded(ms) ==
    LET first == get_first_active(ms, 0)
    IN  IF first = <<>> THEN <<>> ELSE <<first[1], ms[first[1] + 1].move>>

\* What random_move of each base draws in one call of RandomMove.  At most
\* one non-empty base is asked, so one vector for each move that base can
\* draw is enough: the other non-empty bases are given the same move when they
\* have it and their first move otherwise.
SU_Draws(e) ==
    {[i \in 1..Len(e.kinds) |->
        IF <<mv>> \in Base_RandomMove(e.kinds[i], e.st) THEN <<mv>>
        ELSE Base_FirstMove(e.kinds[i], e.st)] : mv \in 1..NumBits}

SUInit ==
    \E kinds \in UNION {[1..n -> Kinds] : n \in 1..MaxModality}, st \in BitStates,
       version \in SU_Versions :
        su = [e |-> [kinds |-> kinds, st |-> st, version |-> version],
              moves |-> FreshMoves(Len(kinds)),
              ends |-> "idle", call |-> "none", selected |-> 0,
              tracked |-> FALSE, trail |-> <<>>]

SUFirstMove ==
    /\ su.ends # "error"
    /\ LET r == SU_FirstMove(su.e, su.moves)
       IN  su' = [su EXCEPT !.moves = r.moves, !.ends = r.ends,
                            !.call = "FirstMove", !.selected = 0,
                            !.tracked = TRUE,
                            !.trail = IF r.ends = "ok" THEN <<SU_Yielded(r.moves)>>
                                      ELSE <<>>]
    /\ UNCHANGED <<varsTL, varsRun, varsCP, varsPar, varsAux>>

SURandomMove ==
    /\ su.ends # "error"
    /\ \E selected \in 0..(Len(su.e.kinds) - 1), draw \in SU_Draws(su.e) :
          /\ \A i \in 1..Len(su.e.kinds) :
                draw[i] \in Base_RandomMove(su.e.kinds[i], su.e.st)
          /\ LET r == SU_RandomMove(su.e, su.moves, selected, draw)
             IN  su' = [su EXCEPT !.moves = r.moves, !.ends = r.ends,
                                  !.call = "RandomMove", !.selected = selected,
                                  !.tracked = FALSE, !.trail = <<>>]
    /\ UNCHANGED <<varsTL, varsRun, varsCP, varsPar, varsAux>>

SUNextMove ==
    /\ su.ends = "ok"
    /\ LET r == SU_NextMove(su.e, su.moves)
       IN  su' = [su EXCEPT !.moves = r.moves, !.ends = r.ends,
                            !.call = "NextMove", !.selected = 0,
                            !.trail = IF su.tracked /\ r.ends = "ok"
                                      THEN Append(@, SU_Yielded(r.moves)) ELSE @]
    /\ UNCHANGED <<varsTL, varsRun, varsCP, varsPar, varsAux>>

SUNext ==
    \/ SUFirstMove
    \/ SURandomMove
    \/ SUNextMove

InitSU == SUInit /\ TLIdle /\ RunIdle /\ CPIdle /\ ParIdle /\ AuxIdle

SpecSU == InitSU /\ [][SUNext]_vars

\* C8: after a successful FirstMove, RandomMove or NextMove of the SetUnion
\* explorer exactly one move of the tuple is flagged active
C8_ExactlyOneActive ==
    su.ends = "ok" =>
        Cardinality({i \in DOMAIN su.moves : su.moves[i].active}) = 1

(***************************************************************************)
(* ParallelNeighborhoodExplorer::SelectBest and RandomBest.  The iterator  *)
(* hands NumTasks moves to tbb::parallel_for_each; the task of a move      *)
(* evaluates its cost on its own and then runs the rest of the lambda      *)
(* under the spin mutex.  Both selections run the same lambda.             *)
(***************************************************************************)
NumTasks == 3       \* moves handed to the tasks of one selection

Tasks == 1..NumTasks

\* Random::Int(a, b) draws from a..b, both ends included
RandomInt(a, b) == a..b

\* (a variant that loses every increment after the first)
PNE_ExploredLost(explored) == IF explored = 0 THEN 1 ELSE explored

\* explored++, under the scoped_lock of the lambda
PNE_Explored(explored) == explored + 1

EvaluatedMove(mv, cost, is_valid) == [move |-> mv, cost |-> cost, is_valid |-> is_valid]

\* EvaluatedMove::empty; no task carries move 0
EmptyEvaluatedMove == EvaluatedMove(0, 0, FALSE)

\* the mutation of the update that never replaces a best move by a cheaper one
PNE_UpdateKeepingFirst(b, mv, accepted, draw) ==
    IF ~accepted THEN b
    ELSE IF b.number_of_bests = 0
         THEN [best_move |-> mv, number_of_bests |-> 1]
         ELSE IF mv.cost = b.best_move.cost
              THEN [best_move |-> IF draw = 0 THEN mv ELSE b.best_move,
                    number_of_bests |-> b.number_of_bests + 1]
              ELSE b

\* the mutation of the update that keeps the best move when the draw is 0
PNE_UpdateOnNonZero(b, mv, accepted, draw) ==
    IF ~accepted THEN b
    ELSE IF b.number_of_bests = 0
         THEN [best_move |-> mv, number_of_bests |-> 1]
         ELSE IF mv.cost < b.best_move.cost
              THEN [best_move |-> mv, number_of_bests |-> 1]
              ELSE IF mv.cost = b.best_move.cost
                   THEN [best_move |-> IF draw # 0 THEN mv ELSE b.best_move,
                         number_of_bests |-> b.number_of_bests + 1]
                   ELSE b

\* if (AcceptMove(mv.move, mv.cost)) { ... } on b = (best_move, number_of_bests);
\* draw is the result of Random::Int(0, number_of_bests)
PNE_Update(b, mv, accepted, draw) ==
    IF ~accepted THEN b
    ELSE IF b.number_of_bests = 0
         THEN [best_move |-> mv, number_of_bests |-> 1]
         ELSE IF mv.cost < b.best_move.cost
              THEN [best_move |-> mv, number_of_bests |-> 1]
              ELSE IF mv.cost = b.best_move.cost
                   THEN [best_move |-> IF draw = 0 THEN mv ELSE b.best_move,
                         number_of_bests |-> b.number_of_bests + 1]
                   ELSE b

\* the draws the lambda may get: Random::Int is called on a tie only
PNE_Draws(b, mv, accepted) ==
    IF accepted /\ b.number_of_bests > 0 /\ mv.cost = b.best_move.cost
    THEN RandomInt(0, b.number_of_bests)
    ELSE {0}

RECURSIVE SumUpTo(_, _)
SumUpTo(f, n) == IF n = 0 THEN 0 ELSE f[n] + SumUpTo(f, n - 1)

\* ghost: ways[x] counts the vectors of draws, over the draws made so far in
\* this order of the tasks, that leave the move x as best_move; all vectors
\* are equally likely, so the probability of x is ways[x] / SumUpTo(ways)
PNE_Ways(p, mv, accepted) ==
    LET held(x) == [best_move |-> EvaluatedMove(x, p.cost[x], TRUE),
                    number_of_bests |-> p.number_of_bests]
        draws == PNE_Draws([best_move |-> p.best_move,
                            number_of_bests |-> p.number_of_bests], mv, accepted)
        into(x, y) == Cardinality({d \in draws :
                          PNE_Update(held(x), mv, accepted, d).best_move.move = y})
    IN  IF p.number_of_bests = 0
        THEN [y \in Tasks |-> IF accepted /\ y = mv.move THEN 1 ELSE 0]
        ELSE [y \in Tasks |->
                 SumUpTo([x \in Tasks |-> p.ways[x] * into(x, y)], NumTasks)]

ParInit ==
    \E cost \in [Tasks -> Costs], acc \in SUBSET Tasks :
        par = [cost |-> cost, acc |-> acc,
               task |-> [i \in Tasks |-> "queued"],
               mv |-> [i \in Tasks |-> EvaluatedMove(i, 0, FALSE)],
               best_move |-> EmptyEvaluatedMove,
               number_of_bests |-> 0,
               explored |-> 0,
               ways |-> [i \in Tasks |-> 0],
               result |-> <<>>]

\* mv.cost = DeltaCostFunctionComponents(st, mv.move, weights); mv.is_valid = true
ParEvaluate ==
    /\ \E i \in Tasks :
          /\ par.task[i] = "queued"
          /\ par' = [par EXCEPT !.task[i] = "evaluated",
                                !.mv[i] = EvaluatedMove(i, par.cost[i], TRUE)]
    /\ UNCHANGED <<varsTL, varsRun, varsCP, varsSU, varsAux>>

\* the rest of the lambda, under the scoped_lock
ParCommit ==
    /\ \E i \in Tasks :
          /\ par.task[i] = "evaluated"
          /\ LET b == [best_move |-> par.best_move,
                       number_of_bests |-> par.number_of_bests]
             IN  \E draw \in PNE_Draws(b, par.mv[i], i \in par.acc) :
                    LET u == PNE_Update(b, par.mv[i], i \in par.acc, draw)
                    IN  par' = [par EXCEPT
                                   !.task[i] = "done",
                                   !.explored = PNE_Explored(@),
                                   !.best_move = u.best_move,
                                   !.number_of_bests = u.number_of_bests,
                                   !.ways = PNE_Ways(par, par.mv[i], i \in par.acc)]
    /\ UNCHANGED <<varsTL, varsRun, varsCP, varsSU, varsAux>>

\* after parallel_for_each: return empty or best_move
ParReturn ==
    /\ par.result = <<>>
    /\ \A i \in Tasks : par.task[i] = "done"
    /\ par' = [par EXCEPT !.result =
                   <<IF par.number_of_bests = 0 THEN EmptyEvaluatedMove
                     ELSE par.best_move>>]
    /\ UNCHANGED <<varsTL, varsRun, varsCP, varsSU, varsAux>>

ParNext ==
    \/ ParEvaluate
    \/ ParCommit
    \/ ParReturn

InitPar == ParInit /\ TLIdle /\ RunIdle /\ CPIdle /\ SUIdle /\ AuxIdle

SpecPar == InitPar /\ [][ParNext]_vars

\* the accepted moves of minimum cost
TiedBests ==
    {i \in par.acc : \A j \in par.acc : par.cost[i] <= par.cost[j]}

\* C9: the selection returns one move, an accepted move whose cost is the
\* minimum over the accepted moves, in whatever order the tasks evaluate
\* and commit; it returns the empty move only if no move is accepted
C9_ParallelBest ==
    par.result # <<>> =>
        IF par.acc = {} THEN par.result[1] = EmptyEvaluatedMove
        ELSE /\ par.result[1].is_valid
             /\ par.result[1].move \in TiedBests
             /\ par.result[1].cost = par.cost[par.result[1].move]

C9_Witness ==
    /\ par.result # <<>>
    /\ par.result[1].is_valid
    /\ \E i \in Tasks \ par.acc : par.cost[i] < par.result[1].cost
    /\ Cardinality(par.acc) > 1
    /\ Cardinality(TiedBests) = 1

\* C10: when k accepted moves tie at the minimum cost, each of them is the
\* returned move for the same number of equally likely vectors of draws,
\* that is with probability 1/k, in whatever order the tasks commit
C10_TieUniform ==
    par.result # <<>> /\ par.acc # {} =>
        \A i \in Tasks :
            par.ways[i] * Cardinality(TiedBests) =
                IF i \in TiedBests THEN SumUpTo(par.ways, NumTasks) ELSE 0

C10_Witness ==
    /\ par.result # <<>>
    /\ Cardinality(TiedBests) = NumTasks
    /\ SumUpTo(par.ways, NumTasks) > NumTasks
    /\ par.result[1].move = NumTasks

(***************************************************************************)
(* ParallelNeighborhoodExplorer::SelectFirst.  The FullNeighborhoodIterator*)
(* enumerates the n moves of the neighbourhood (none when FirstMove throws *)
(* EmptyNeighborhood) and move i is the i-th it enumerates.  A task that   *)
(* finds the first accepted move cancels the group: the tasks not started  *)
(* yet never start, the tasks already started run to their end.            *)
(***************************************************************************)
\* the mutation of the update that lets a later accepted move replace the first
PNE_FirstUpdateLast(f, mv, accepted) ==
    IF accepted THEN [first_move |-> mv, first_move_found |-> TRUE] ELSE f

\* if (!first_move_found) { if (AcceptMove(mv.move, mv.cost)) { ... } }
PNE_FirstUpdate(f, mv, accepted) ==
    IF ~f.first_move_found /\ accepted
    THEN [first_move |-> mv, first_move_found |-> TRUE]
    ELSE f

SFInit ==
    \E n \in 0..NumTasks :
    \E cost \in [1..n -> {0, MaxCost}], acc \in SUBSET (1..n) :
        sf = [n |-> n, cost |-> cost, acc |-> acc,
              task |-> [i \in 1..n |-> "queued"],
              mv |-> [i \in 1..n |-> EvaluatedMove(i, 0, FALSE)],
              first_move |-> EmptyEvaluatedMove,
              first_move_found |-> FALSE,
              explored |-> 0,
              committed |-> <<>>,
              result |-> <<>>]

\* mv.cost = DeltaCostFunctionComponents(st, mv.move, weights); mv.is_valid = true
SFEvaluate ==
    /\ \E i \in 1..sf.n :
          /\ sf.task[i] = "queued"
          /\ ~sf.first_move_found
          /\ sf' = [sf EXCEPT !.task[i] = "evaluated",
                              !.mv[i] = EvaluatedMove(i, sf.cost[i], TRUE)]
    /\ UNCHANGED <<varsTL, varsRun, varsCP, varsSU, varsPar, cs, ss, sa, tb, sub, sc, ts, td>>

\* the rest of the lambda, under the scoped_lock
SFCommit ==
    /\ \E i \in 1..sf.n :
          /\ sf.task[i] = "evaluated"
          /\ LET u == PNE_FirstUpdate([first_move |-> sf.first_move,
                                       first_move_found |-> sf.first_move_found],
                                      sf.mv[i], i \in sf.acc)
             IN  sf' = [sf EXCEPT !.task[i] = "done",
                                  !.explored = PNE_Explored(@),
                                  !.first_move = u.first_move,
                                  !.first_move_found = u.first_move_found,
                                  !.committed = Append(@, i)]
    /\ UNCHANGED <<varsTL, varsRun, varsCP, varsSU, varsPar, cs, ss, sa, tb, sub, sc, ts, td>>

\* after parallel_for_each: return empty or first_move
SFReturn ==
    /\ sf.result = <<>>
    /\ \A i \in 1..sf.n :
          sf.task[i] = "done" \/ (sf.task[i] = "queued" /\ sf.first_move_found)
    /\ sf' = [sf EXCEPT !.result =
                  <<IF ~sf.first_move_found THEN EmptyEvaluatedMove
                    ELSE sf.first_move>>]
    /\ UNCHANGED <<varsTL, varsRun, varsCP, varsSU, varsPar, cs, ss, sa, tb, sub, sc, ts, td>>

SFNext ==
    \/ SFEvaluate
    \/ SFCommit
    \/ SFReturn

InitFirst ==
    SFInit /\ TLIdle /\ RunIdle /\ CPIdle /\ SUIdle /\ ParIdle /\ cs = <<>> /\ ss = <<>>
    /\ sa = <<>> /\ tb = <<>> /\ sub = <<>> /\ sc = <<>> /\ ts = <<>> /\ td = <<>>

SpecFirst == InitFirst /\ [][SFNext]_vars

\* C11 as stated: SelectFirst returns the accepted move that comes first in
\* the enumeration of the neighbourhood, and the empty move if none is
\* accepted
C11_FirstEnumerated ==
    sf.result # <<>> =>
        IF sf.acc = {} THEN sf.result[1] = EmptyEvaluatedMove
        ELSE /\ sf.result[1].is_valid
             /\ sf.result[1].move \in sf.acc
             /\ \A j \in sf.acc : sf.result[1].move <= j

\* C11 amended: SelectFirst returns the accepted move whose task is the first
\* to run the locked part of the lambda, with its cost, and the empty move
\* if and only if no move is accepted
C11_FirstCommitted ==
    sf.result # <<>> =>
        IF sf.acc = {} THEN sf.result[1] = EmptyEvaluatedMove
        ELSE /\ sf.result[1].is_valid
             /\ sf.result[1].move \in sf.acc
             /\ sf.result[1].cost = sf.cost[sf.result[1].move]
             /\ \E k \in 1..Len(sf.committed) :
                   /\ sf.committed[k] = sf.result[1].move
                   /\ \A h \in 1..(k - 1) : sf.committed[h] \notin sf.acc

C11_Witness ==
    /\ sf.result # <<>>
    /\ sf.result[1].is_valid
    /\ \E j \in sf.acc : j < sf.result[1].move
    /\ \E k \in 1..Len(sf.committed) :
          sf.committed[k] \in sf.acc /\ sf.committed[k] # sf.result[1].move

\* C12: in a run of the bimodal hill climbing every accepted move of strictly
\* negative cost, of either move type, resets the idle count to the current
\* iteration, so the run does not stop on it while max_idle_iteration is
\* larger than the one iteration elapsed since
C12_ImprovementResetsIdle ==
    [][pc = "run" /\ alg = "HC" /\ rn'.current_state_cost < rn.current_state_cost
       => /\ rn'.iteration_of_best = rn.number_of_iterations
          /\ rn.max_idle_iteration > 1 => ~BHC_StopCriterion(rn')]_vars

\* C13: an iteration of a run that applies an accepted move updates the best
\* state, best_state_cost and iteration_of_best if and only if the new
\* current_state_cost is strictly lower than best_state_cost; otherwise it
\* leaves the three of them as they were
C13_BestUpdatedIffStrictlyLower ==
    [][/\ pc = "run"
       /\ rn'.number_of_iterations = rn.number_of_iterations + 1
       /\ rn'.current_state # rn.current_state
       => IF rn'.current_state_cost < rn.best_state_cost
          THEN /\ rn'.best_state = rn'.current_state
               /\ rn'.best_state_cost = rn'.current_state_cost
               /\ rn'.iteration_of_best = rn.number_of_iterations
          ELSE /\ rn'.best_state = rn.best_state
               /\ rn'.best_state_cost = rn.best_state_cost
               /\ rn'.iteration_of_best = rn.iteration_of_best]_vars

(***************************************************************************)
(* Cost structures.  DefaultCostStructure (the aggregated regime) and      *)
(* HierarchicalCostStructure have the same fields, constructors and        *)
(* arithmetic and differ in their comparison operators.  A cost structure  *)
(* is built by StateManager::CostFunctionComponents from the costs of the  *)
(* registered cost components, or is default-constructed.                  *)
(***************************************************************************)

HARD_WEIGHT == 1000

MaxComponents == 2      \* registered cost components
MaxComponentCost == 1   \* the cost of one component ranges over 0..MaxComponentCost

ComponentCosts == 0..MaxComponentCost

CostStructure(total, weighted, violations, objective, all_components, is_weighted) ==
    [total |-> total, violations |-> violations, objective |-> objective,
     all_components |-> all_components, weighted |-> weighted,
     is_weighted |-> is_weighted]

EmptyCostStructure == CostStructure(0, 0, 0, 0, <<>>, FALSE)

\* cost[i] is the cost of component i, hard[i] its IsHard(), weights the
\* vector of weights passed by the caller (empty for the unweighted call)
CostFunctionComponents(cost, hard, weights) ==
    LET n == Len(cost)
        hard_cost == SumUpTo([i \in 1..n |-> IF hard[i] THEN cost[i] ELSE 0], n)
        soft_cost == SumUpTo([i \in 1..n |-> IF hard[i] THEN 0 ELSE cost[i]], n)
        weighted_cost ==
            SumUpTo([i \in 1..n |-> IF weights = <<>> THEN 0
                                    ELSE IF hard[i]
                                         THEN HARD_WEIGHT * weights[i] * cost[i]
                                         ELSE weights[i] * cost[i]], n)
        total == HARD_WEIGHT * hard_cost + soft_cost
    IN  IF weights # <<>>
        THEN CostStructure(total, weighted_cost, hard_cost, soft_cost, cost, TRUE)
        ELSE CostStructure(total, total, hard_cost, soft_cost, cost, FALSE)

\* all_components after += (sign 1) or -= (sign -1): resized with zeros to
\* the length of other's vector when shorter, then changed position by position
CS_Components(this, other, sign) ==
    LET n == IF Len(this) < Len(other) THEN Len(other) ELSE Len(this)
    IN  [i \in 1..n |-> (IF i <= Len(this) THEN this[i] ELSE 0)
                        + (IF i <= Len(other) THEN sign * other[i] ELSE 0)]

CS_PlusKeepingComponents(cs1, cs2) ==
    [cs1 EXCEPT !.total = @ + cs2.total,
                !.violations = @ + cs2.violations,
                !.objective = @ + cs2.objective]

CS_Plus(cs1, cs2) ==
    [cs1 EXCEPT !.total = @ + cs2.total,
                !.violations = @ + cs2.violations,
                !.objective = @ + cs2.objective,
                !.all_components = CS_Components(@, cs2.all_components, 1)]

CS_Minus(cs1, cs2) ==
    [cs1 EXCEPT !.total = @ - cs2.total,
                !.violations = @ - cs2.violations,
                !.objective = @ - cs2.objective,
                !.all_components = CS_Components(@, cs2.all_components, 0 - 1)]

CompareOps == {"<", "<=", "==", ">=", ">", "!="}

\* LessThan, LessThanOrEqualTo, EqualTo, GreaterThanOrEqualTo, GreaterThan
\* and !EqualTo on two values
Compare(op, value1, value2) ==
    CASE op = "<" -> value1 < value2
      [] op = "<=" -> value1 <= value2
      [] op = "==" -> value1 = value2
      [] op = ">=" -> value1 >= value2
      [] op = ">" -> value1 > value2
      [] op = "!=" -> value1 # value2

\* the aggregated regime: cs1 op cs2
DCS_CompareTotals(op, cs1, cs2) == Compare(op, cs1.total, cs2.total)

DCS_Compare(op, cs1, cs2) ==
    IF cs1.is_weighted /\ cs2.is_weighted
    THEN Compare(op, cs1.weighted, cs2.weighted)
    ELSE Compare(op, cs1.total, cs2.total)

\* the aggregated regime: cs op c (side "right") and c op cs (side "left")
DCS_CompareScalar(op, side, cs1, c) ==
    LET v == IF cs1.is_weighted THEN cs1.weighted ELSE cs1.total
    IN  IF side = "right" THEN Compare(op, v, c) ELSE Compare(op, c, v)

HCS_ScanFirstOnly(walked, read, i) ==
    IF i > Len(walked) THEN "equal"
    ELSE IF i > Len(read) THEN "undefined"
    ELSE IF walked[i] < read[i] THEN "less"
    ELSE IF walked[i] > read[i] THEN "greater"
    ELSE "equal"

\* The loop shared by the hierarchical operators: it walks the positions of
\* `walked` and reads the same position of `read`; it stops at the first
\* position where the two differ.  Reading past the end of `read` is an
\* out-of-bounds read of a std::vector ("undefined").
RECURSIVE HCS_Scan(_, _, _)
HCS_Scan(walked, read, i) ==
    IF i > Len(walked) THEN "equal"
    ELSE IF i > Len(read) THEN "undefined"
    ELSE IF walked[i] < read[i] THEN "less"
    ELSE IF walked[i] > read[i] THEN "greater"
    ELSE HCS_Scan(walked, read, i + 1)

\* the value the operator op returns when the loop stops with `scan`; every
\* value is possible after an out-of-bounds read
HCS_Outcomes(op, scan) ==
    IF scan = "undefined" THEN BOOLEAN
    ELSE {CASE op = "<" -> scan = "less"
            [] op = "<=" -> scan \in {"less", "equal"}
            [] op = "==" -> scan = "equal"
            [] op = ">=" -> scan \in {"greater", "equal"}
            [] op = ">" -> scan = "greater"
            [] op = "!=" -> scan # "equal"}

\* the hierarchical regime: the possible values of cs1 op cs2
HCS_Compare(op, cs1, cs2) ==
    HCS_Outcomes(op, HCS_Scan(cs1.all_components, cs2.all_components, 1))

\* the hierarchical regime: cs op c (side "right") and c op cs (side "left");
\* the scalar is compared with each component in turn
HCS_CompareScalar(op, side, cs1, c) ==
    LET comps == cs1.all_components
        cc == [i \in 1..Len(comps) |-> c]
    IN  IF side = "right" THEN HCS_Outcomes(op, HCS_Scan(comps, cc, 1))
        ELSE HCS_Outcomes(op, HCS_Scan(cc, comps, 1))

Regimes == {"aggregated", "hierarchical"}

\* the possible values of cs1 op cs2 in a regime
CS_Compare(regime, op, cs1, cs2) ==
    IF regime = "aggregated" THEN {DCS_Compare(op, cs1, cs2)}
    ELSE HCS_Compare(op, cs1, cs2)

CS_CompareScalar(regime, op, side, cs1, c) ==
    IF regime = "aggregated" THEN {DCS_CompareScalar(op, side, cs1, c)}
    ELSE HCS_CompareScalar(op, side, cs1, c)

\* StateManager::LowerBoundReached: costs == 0
LowerBoundReached(regime, costs) == CS_CompareScalar(regime, "==", "right", costs, 0)

\* The operands: two cost structures of one state manager (n registered
\* components, the first h of them hard, one vector of weights for the
\* weighted calls), each possibly default-constructed, or one cost structure
\* and a bare scalar.
CSInit ==
    \E n \in 0..MaxComponents :
    \E hard \in {[i \in 1..n |-> i <= h] : h \in 0..1}, w \in [1..n -> 0..1] :
        LET Built == {EmptyCostStructure} \cup
                     {CostFunctionComponents(cost, hard, weights) :
                          cost \in [1..n -> ComponentCosts], weights \in {<<>>, w}}
        IN  \E cs1 \in Built :
              \/ \E cs2 \in Built :
                   cs = [cs1 |-> cs1, cs2 |-> cs2, c |-> 0, other |-> "structure",
                         call |-> "none", regime |-> "none", side |-> "none",
                         sum |-> EmptyCostStructure, diff |-> EmptyCostStructure,
                         result |-> <<>>, order |-> <<>>]
              \/ \E c \in ComponentCosts :
                   cs = [cs1 |-> cs1, cs2 |-> EmptyCostStructure, c |-> c,
                         other |-> "scalar",
                         call |-> "none", regime |-> "none", side |-> "none",
                         sum |-> EmptyCostStructure, diff |-> EmptyCostStructure,
                         result |-> <<>>, order |-> <<>>]

\* one value for each of the six operators, among those the call can return
CS_Results(Outcomes(_)) ==
    IF \A op \in CompareOps : Cardinality(Outcomes(op)) = 1
    THEN {[op \in CompareOps |-> CHOOSE r \in Outcomes(op) : TRUE]}
    ELSE {r \in [CompareOps -> BOOLEAN] : \A op \in CompareOps : r[op] \in Outcomes(op)}

\* (cs1 + cs2) - cs2 compared with cs1
CSArith ==
    /\ cs # <<>> /\ cs.call = "none" /\ cs.other = "structure"
    /\ \E regime \in Regimes :
         LET sum == CS_Plus(cs.cs1, cs.cs2)
             diff == CS_Minus(sum, cs.cs2)
             Outcomes(op) == CS_Compare(regime, op, diff, cs.cs1)
         IN  \E r \in CS_Results(Outcomes) :
               cs' = [cs EXCEPT !.call = "arith", !.regime = regime,
                                !.sum = sum, !.diff = diff, !.result = r]
    /\ UNCHANGED <<varsTL, varsRun, varsCP, varsSU, varsPar, sf, ss, sa, tb, sub, sc, ts, td>>

\* cs1 op cs2 for each operator
CSCompare ==
    /\ cs # <<>> /\ cs.call = "none" /\ cs.other = "structure"
    /\ \E regime \in Regimes :
         LET Outcomes(op) == CS_Compare(regime, op, cs.cs1, cs.cs2)
         IN  \E r \in CS_Results(Outcomes) :
               cs' = [cs EXCEPT !.call = "compare", !.regime = regime, !.result = r]
    /\ UNCHANGED <<varsTL, varsRun, varsCP, varsSU, varsPar, sf, ss, sa, tb, sub, sc, ts, td>>

\* cs1 op c and c op cs1 for each operator
CSCompareScalar ==
    /\ cs # <<>> /\ cs.call = "none" /\ cs.other = "scalar"
    /\ \E regime \in Regimes, side \in {"left", "right"} :
         LET Outcomes(op) == CS_CompareScalar(regime, op, side, cs.cs1, cs.c)
         IN  \E r \in CS_Results(Outcomes) :
               cs' = [cs EXCEPT !.call = "scalar", !.regime = regime,
                                !.side = side, !.result = r]
    /\ UNCHANGED <<varsTL, varsRun, varsCP, varsSU, varsPar, sf, ss, sa, tb, sub, sc, ts, td>>

\* cs1 < cs2, cs1 == cs2 and cs2 < cs1, one call each
CSOrder ==
    /\ cs # <<>> /\ cs.call = "none" /\ cs.other = "structure"
    /\ \E regime \in Regimes :
         \E lt \in CS_Compare(regime, "<", cs.cs1, cs.cs2),
            eq \in CS_Compare(regime, "==", cs.cs1, cs.cs2),
            gt \in CS_Compare(regime, "<", cs.cs2, cs.cs1) :
               cs' = [cs EXCEPT !.call = "order", !.regime = regime,
                                !.order = <<lt, eq, gt>>]
    /\ UNCHANGED <<varsTL, varsRun, varsCP, varsSU, varsPar, sf, ss, sa, tb, sub, sc, ts, td>>

CSNext == CSArith \/ CSCompare \/ CSCompareScalar \/ CSOrder

InitCost ==
    CSInit /\ TLIdle /\ RunIdle /\ CPIdle /\ SUIdle /\ ParIdle /\ sf = <<>> /\ ss = <<>>
    /\ sa = <<>> /\ tb = <<>> /\ sub = <<>> /\ sc = <<>> /\ ts = <<>> /\ td = <<>>

SpecCost == InitCost /\ [][CSNext]_vars

SameLength(cs1, cs2) == Len(cs1.all_components) = Len(cs2.all_components)

\* C14: for two cost structures a and b whose component vectors have the same
\* length, (a + b) - b == a holds in the aggregated and in the hierarchical
\* regime
C14_AddThenSubtract ==
    cs # <<>> /\ cs.call = "arith" /\ SameLength(cs.cs1, cs.cs2)
    => /\ cs.result["=="]
       /\ cs.diff.all_components = cs.cs1.all_components

C14_Witness ==
    /\ cs # <<>> /\ cs.call = "arith" /\ cs.regime = "hierarchical"
    /\ SameLength(cs.cs1, cs.cs2)
    /\ \E i \in 1..Len(cs.cs2.all_components) : cs.cs2.all_components[i] # 0
    /\ cs.cs1.is_weighted /\ cs.sum.total # cs.cs1.total

C16_AggregatedCompare ==
    cs # <<>> /\ cs.call = "compare" /\ cs.regime = "aggregated"
    => \A op \in CompareOps :
         cs.result[op] = IF cs.cs1.is_weighted /\ cs.cs2.is_weighted
                         THEN Compare(op, cs.cs1.weighted, cs.cs2.weighted)
                         ELSE Compare(op, cs.cs1.total, cs.cs2.total)

C16_Witness ==
    /\ cs # <<>> /\ cs.call = "compare" /\ cs.regime = "aggregated"
    /\ cs.cs1.is_weighted /\ cs.cs2.is_weighted
    /\ cs.cs1.weighted < cs.cs2.weighted /\ cs.cs1.total > cs.cs2.total
    /\ cs.result["<"]

\* C17: comparing a cost structure with a bare scalar k compares k with the
\* structure's total, or with its weighted value when the structure is
\* weighted, in the aggregated and in the hierarchical regime (cost == 0, the
\* test of lower_bound_reached, included)
C17_ScalarCompare ==
    cs # <<>> /\ cs.call = "scalar"
    => LET v == IF cs.cs1.is_weighted THEN cs.cs1.weighted ELSE cs.cs1.total
       IN  /\ \A op \in CompareOps :
                cs.result[op] = IF cs.side = "right" THEN Compare(op, v, cs.c)
                                ELSE Compare(op, cs.c, v)
           /\ cs.c = 0 => LowerBoundReached(cs.regime, cs.cs1) = {v = 0}

\* the moves of the SetUnion neighbourhood as <<base, move>>
SU_AllMoves(e) ==
    {p \in (0..(Len(e.kinds) - 1)) \X (1..NumBits) :
        p[2] \in Neighborhood(e.kinds[p[1] + 1], e.st)}

\* C18: RandomMove of the SetUnion explorer throws EmptyNeighborhood only when
\* every base neighbourhood is empty; otherwise it returns a move of the first
\* non-empty base met from the drawn one on, the following bases first and
\* then the preceding ones
C18_RandomMoveScans ==
    su.call = "RandomMove" =>
        LET n == Len(su.e.kinds)
            NonEmpty(i) == Neighborhood(su.e.kinds[i + 1], su.e.st) # {}
            Rank(i) == (i - su.selected + n) % n
        IN  /\ su.ends = "empty" <=> \A i \in 0..(n - 1) : ~NonEmpty(i)
            /\ su.ends = "ok" =>
                 LET y == SU_Yielded(su.moves)
                 IN  /\ y \in SU_AllMoves(su.e)
                     /\ \A j \in 0..(n - 1) : NonEmpty(j) => Rank(y[1]) <= Rank(j)

\* C19: FirstMove followed by NextMove until it returns false yields every
\* move of every base neighbourhood exactly once, the bases in increasing
\* order from the lowest non-empty one; FirstMove throws EmptyNeighborhood
\* exactly when there is no move at all
C19_EnumerationExact ==
    /\ su.call = "FirstMove" => (su.ends = "empty" <=> SU_AllMoves(su.e) = {})
    /\ su.tracked /\ su.call = "NextMove" /\ su.ends = "false"
       => /\ {su.trail[k] : k \in 1..Len(su.trail)} = SU_AllMoves(su.e)
          /\ Len(su.trail) = Cardinality(SU_AllMoves(su.e))
          /\ \A k, l \in 1..Len(su.trail) : k < l => su.trail[k][1] <= su.trail[l][1]

C19_Witness ==
    /\ su.tracked /\ su.call = "NextMove" /\ su.ends = "false"
    /\ Len(su.trail) > MaxModality
    /\ \E k \in 1..(Len(su.trail) - 1) : su.trail[k][1] < su.trail[k + 1][1]
    /\ su.e.version = "helpers"

(***************************************************************************)
(* StateManager::SampleState, one pass of its loop at a time.  drawn is    *)
(* the sequence of the states RandomState has produced during the call.    *)
(***************************************************************************)
MaxInitTrials == 3      \* largest number of samples asked of SampleState

SS_UpdateStateOnly(b, st, cost) ==
    IF LessThan(cost, b.best_cost)
    THEN [b EXCEPT !.best_state = st]
    ELSE b

\* if (cost < best_cost) { best_state = st; best_cost = cost; }
SS_Update(b, st, cost) ==
    IF LessThan(cost, b.best_cost)
    THEN [b EXCEPT !.best_state = st, !.best_cost = cost]
    ELSE b

SSInit ==
    /\ cf \in Landscapes
    /\ \E samples \in 0..MaxInitTrials :
         ss = [samples |-> samples, at |-> "call", s |-> 0, st |-> <<>>,
               best_state |-> <<>>, best_cost |-> 0, drawn |-> <<>>,
               result |-> <<>>]

\* s = 1; RandomState(in, st); cost, best_state and best_cost from it
SSFirstDraw ==
    /\ ss # <<>> /\ ss.at = "call"
    /\ \E x \in States :
         ss' = [ss EXCEPT !.at = "loop", !.s = 1, !.st = x,
                          !.best_state = x, !.best_cost = CostFunction(x),
                          !.drawn = <<x>>]
    /\ UNCHANGED <<varsTL, varsRun, varsCP, varsSU, varsPar, sf, cs, sa, tb, sub, sc, ts, td>>

\* one pass of while (s < samples)
SSLoop ==
    /\ ss # <<>> /\ ss.at = "loop" /\ ss.s < ss.samples
    /\ \E x \in States :
         LET b == SS_Update(ss, x, CostFunction(x))
         IN  ss' = [b EXCEPT !.st = x, !.s = @ + 1, !.drawn = Append(@, x)]
    /\ UNCHANGED <<varsTL, varsRun, varsCP, varsSU, varsPar, sf, cs, sa, tb, sub, sc, ts, td>>

\* st = best_state; return best_cost
SSReturn ==
    /\ ss # <<>> /\ ss.at = "loop" /\ ~(ss.s < ss.samples)
    /\ ss' = [ss EXCEPT !.at = "returned", !.st = ss.best_state,
                        !.result = <<ss.best_cost>>]
    /\ UNCHANGED <<varsTL, varsRun, varsCP, varsSU, varsPar, sf, cs, sa, tb, sub, sc, ts, td>>

SSNext == SSFirstDraw \/ SSLoop \/ SSReturn

InitSample ==
    /\ SSInit /\ TLIdle /\ CPIdle /\ SUIdle /\ ParIdle /\ sf = <<>> /\ cs = <<>>
    /\ sa = <<>> /\ tb = <<>> /\ sub = <<>> /\ sc = <<>> /\ ts = <<>> /\ td = <<>>
    /\ alg = "none" /\ sv = <<>> /\ rn = <<>> /\ pc = "idle"
    /\ timeout = FALSE /\ visited = {}

SpecSample == InitSample /\ [][SSNext]_vars

\* the state left in st is one of the drawn states, of minimal cost among
\* them, and the cost returned is the cost of that state
SS_ReturnsMinimum ==
    /\ \E k \in 1..Len(ss.drawn) : ss.st = ss.drawn[k]
    /\ \A k \in 1..Len(ss.drawn) : CostFunction(ss.st) <= CostFunction(ss.drawn[k])
    /\ ss.result = <<CostFunction(ss.st)>>

\* C20: SampleState called with n samples performs exactly n RandomState
\* draws and returns a drawn state of minimal cost among them, together with
\* exactly that state's cost
C20_ExactlyNDraws ==
    ss # <<>> /\ ss.at = "returned"
    => Len(ss.drawn) = ss.samples /\ SS_ReturnsMinimum

\* C20 (amended): SampleState called with n samples performs n RandomState
\* draws, and one draw when n is 0; it returns a drawn state of minimal cost
\* among the drawn ones, together with exactly that state's cost
C20_AtLeastOneDraw ==
    ss # <<>> /\ ss.at = "returned"
    => /\ Len(ss.drawn) = IF ss.samples = 0 THEN 1 ELSE ss.samples
       /\ SS_ReturnsMinimum
       /\ ss.st = SampleState(ss.drawn)

C20_Witness ==
    /\ ss # <<>> /\ ss.at = "returned" /\ ss.samples = MaxInitTrials
    /\ CostFunction(ss.drawn[1]) > CostFunction(ss.drawn[2])
    /\ CostFunction(ss.drawn[2]) = CostFunction(ss.drawn[3])
    /\ ss.drawn[2] # ss.drawn[3]
    /\ ss.st = ss.drawn[2]

\* the iteration counter of the list when the insertion recorded in r was made
HistInsertIteration(tl, r) == tl.iter - 1 - r.age

\* the insertions an item of the list can come from
HistOf(tl, h, item) ==
    {r \in h : /\ r.elem = item.elem
               /\ r.age < r.tenure
               /\ item.out_iter = HistInsertIteration(tl, r) + r.tenure}

\* C21: every item of the tabu list has out_iter > insert_iteration +
\* min_tenure and out_iter <= insert_iteration + max_tenure, where
\* insert_iteration is the iteration counter of the list at the insertion
C21_TenureStrictlyAboveMin ==
    \A i \in 1..Len(tlm.tlist) :
        /\ HistOf(tlm, hist, tlm.tlist[i]) # {}
        /\ \A r \in HistOf(tlm, hist, tlm.tlist[i]) :
              /\ tlm.tlist[i].out_iter > HistInsertIteration(tlm, r) + tlm.min_tenure
              /\ tlm.tlist[i].out_iter <= HistInsertIteration(tlm, r) + tlm.max_tenure

\* C21 (amended): every item of the tabu list has out_iter = insert_iteration
\* + t for the tenure t drawn at its insertion; in a list with min_tenure <=
\* max_tenure this is at least insert_iteration + min_tenure (the bound is
\* reached) and at most insert_iteration + max_tenure
C21_TenureWithinBounds ==
    \A i \in 1..Len(tlm.tlist) :
        /\ HistOf(tlm, hist, tlm.tlist[i]) # {}
        /\ tlm.min_tenure <= tlm.max_tenure =>
             \A r \in HistOf(tlm, hist, tlm.tlist[i]) :
                /\ tlm.tlist[i].out_iter >= HistInsertIteration(tlm, r) + tlm.min_tenure
                /\ tlm.tlist[i].out_iter <= HistInsertIteration(tlm, r) + tlm.max_tenure

\* an item that leaves exactly min_tenure iterations after its insertion,
\* next to an older item of the same list
C21_Witness ==
    /\ tlm.min_tenure = tlm.max_tenure /\ tlm.min_tenure > 1
    /\ Len(tlm.tlist) > 1
    /\ \E r \in HistOf(tlm, hist, tlm.tlist[1]) :
          tlm.tlist[1].out_iter = HistInsertIteration(tlm, r) + tlm.min_tenure

\* C22: a tabu search whose lists have min_tenure > max_tenure is rejected no
\* later than InitializeRun, so that 0 <= min_tenure <= max_tenure in both
\* lists whenever the run is under way and a tenure is drawn
C22_TenureOrdered ==
    (alg = "TS" /\ pc \in {"run", "ran", "done"}) =>
        /\ 0 <= rn.pm1.min_tenure /\ rn.pm1.min_tenure <= rn.pm1.max_tenure
        /\ 0 <= rn.pm2.min_tenure /\ rn.pm2.min_tenure <= rn.pm2.max_tenure

\* C24: a Solve() with random_initial_state unset and no GreedyState fails
\* with the not-implemented error, which propagates out of Solve() to its
\* caller before any iteration of the runner
C24_GreedyMissingPropagates ==
    sv.thrown # "none" =>
        /\ sv.thrown = GreedyState
        /\ pc = "failed"
        /\ visited = {}

(***************************************************************************)
(* Specification of a simulated annealing run, in the three versions of    *)
(* the runner: SimulatedAnnealing of src/runners ("runners"), of part_010  *)
(* ("part_010") and SimulatedAnnealingWithReheating ("reheating").         *)
(* Temperatures and cooling rates are doubles in the code; the model keeps *)
(* them as exact fractions n/d whose denominator is a power of two.        *)
(***************************************************************************)
MaxStartTemperature == 4    \* largest start_temperature given to a run
MaxNeighbors == 2           \* largest max_neighbors_sampled / _accepted
MaxSAIterations == 6        \* max_iteration of a run that is given one

SA_Versions == {"runners", "part_010", "reheating"}

Frac(n, d) == [n |-> n, d |-> d]

RECURSIVE Reduce(_)
Reduce(q) ==
    IF q.d > 1 /\ q.n % 2 = 0 THEN Reduce(Frac(q.n \div 2, q.d \div 2)) ELSE q

Times(a, b) == Reduce(Frac(a.n * b.n, a.d * b.d))

Leq(a, b) == a.n * b.d <= b.n * a.d

Positive(a) == a.n > 0

\* the cooling rates given to a run: -1/2, 0, 1/2, 1 and 2
CoolingRates ==
    {Frac(-1, 2), Frac(0, 1), Frac(1, 2), Frac(1, 1), Frac(2, 1)}

\* the runner object after construction and the setting of its parameters
\* (limited: max_iteration is set to MaxSAIterations, not left at ULONG_MAX)
SimulatedAnnealing(version, start, min, rate, sampled, accepted, limited) ==
    [version |-> version, at |-> "idle", limited |-> limited,
     current_state |-> <<1, 1>>, best_state |-> <<1, 1>>,
     current_state_cost |-> 0, best_state_cost |-> 0,
     number_of_iterations |-> 0, iteration_of_best |-> 0,
     current_move_type |-> MOVE_1,
     current_move1 |-> 0, current_move2 |-> 0,
     current_move_cost1 |-> 0, current_move_cost2 |-> 0,
     start_temperature |-> start, min_temperature |-> min,
     cooling_rate |-> rate, temperature |-> Frac(0, 1),
     max_neighbors_sampled |-> sampled, max_neighbors_accepted |-> accepted,
     neighbors_sampled |-> 0, neighbors_accepted |-> 0]

\* GoCheck passes: only the runner of src/runners overrides it
\* (neighbors_sampled, the cooling period of that version, is kept in
\* max_neighbors_sampled)
SAD_GoCheck(r) ==
    r.version = "runners" =>
        /\ ~(r.start_temperature.n < 0)
        /\ ~(r.cooling_rate.n <= 0)
        /\ ~(r.max_neighbors_sampled = 0)

SetMax(S) == CHOOSE x \in S : \A y \in S : x >= y

\* sample: the moves RandomMove returned in the sampling loop; variance: the
\* variance of the costs of the random states sampled by the "runners" version
SAD_InitializeRun(r, st, sample, variance) ==
    LET r1 == MoveRunner_InitializeRun(r, st)
        drawn == {DeltaCostFunction(MOVE_1, st, mv) : mv \in sample}
    IN [r1 EXCEPT
          !.temperature =
              IF Positive(r.start_temperature) THEN r.start_temperature
              ELSE IF r.version = "runners" THEN Frac(variance, 1)
              ELSE Frac(SetMax(drawn), 1),
          !.neighbors_sampled = 0,
          !.neighbors_accepted = 0]

SAD_SelectMove(r, mv) ==
    [SA_SelectMove(r, mv) EXCEPT
        !.neighbors_sampled = IF r.version = "runners" THEN @ ELSE @ + 1]

\* lucky: the random number fell below exp(-current_move_cost/temperature),
\* which cannot happen when the temperature is 0
SAD_AcceptableMove(r, lucky) ==
    LessOrEqualThan(r.current_move_cost1, 0) \/ (lucky /\ Positive(r.temperature))

SAD_CoolingNeeded(r) ==
    \/ r.neighbors_sampled = r.max_neighbors_sampled
    \/ r.neighbors_accepted = r.max_neighbors_accepted

SAD_Cool(r) ==
    [r EXCEPT !.temperature = Times(@, r.cooling_rate),
              !.neighbors_sampled = 0,
              !.neighbors_accepted = 0]

\* the hook run after an accepted move has been made (the "runners" version
\* has none)
SAD_CompleteMove(r) ==
    LET r1 == [r EXCEPT !.neighbors_accepted = @ + 1]
    IN IF r.version = "runners" THEN r
       ELSE IF r.version = "part_010" /\ SAD_CoolingNeeded(r1) THEN SAD_Cool(r1)
       ELSE r1

\* StoreMove: the "runners" version has its own, the others leave it to
\* MoveRunner (a strictly lower cost is a new best)
SAD_StoreMove(r) ==
    IF r.version = "runners" THEN SA_StoreMove(r)
    ELSE IF r.current_state_cost < r.best_state_cost
    THEN [r EXCEPT !.best_state = r.current_state,
                   !.best_state_cost = r.current_state_cost,
                   !.iteration_of_best = r.number_of_iterations]
    ELSE r

SAD_UpdateIterationCounter(r) ==
    LET r1 == MoveRunner_UpdateIterationCounter(r)
    IN CASE r.version = "runners" ->
              IF r1.number_of_iterations % r1.max_neighbors_sampled = 0
              THEN [r1 EXCEPT !.temperature = Times(@, r.cooling_rate)]
              ELSE r1
         [] r.version = "reheating" ->
              IF SAD_CoolingNeeded(r1) THEN SAD_Cool(r1) ELSE r1
         [] OTHER -> r1

SAD_StopCriterion(r) == Leq(r.temperature, r.min_temperature)

SAD_MaxIterationExpired(r) ==
    r.limited /\ r.number_of_iterations >= MaxSAIterations

\* In a run without max_iteration the counters that no test of the run can
\* tell apart any more are not followed further: number_of_iterations beyond
\* MaxSAIterations (the "runners" version, which cools on its value, keeps
\* it) and neighbors_sampled beyond max_neighbors_sampled + 1
SAD_Counters(r) ==
    IF r.limited \/ r.version = "runners" THEN r
    ELSE [r EXCEPT
            !.number_of_iterations =
                IF @ > MaxSAIterations THEN MaxSAIterations ELSE @,
            !.neighbors_sampled =
                IF @ > r.max_neighbors_sampled THEN r.max_neighbors_sampled + 1 ELSE @]

\* the runs whose parameters are drawn from the given rates
SADInitWith(landscapes, rates, limited) ==
    /\ cf \in landscapes
    /\ \E version \in SA_Versions, start \in {0, MaxStartTemperature},
          rate \in rates,
          sampled \in 1..MaxNeighbors, accepted \in 1..MaxNeighbors :
         sa = SimulatedAnnealing(version, Frac(start, 1), Frac(1, 1), rate,
                                 sampled, accepted, limited)

SADOthersIdle ==
    /\ TLIdle /\ CPIdle /\ SUIdle /\ ParIdle
    /\ sf = <<>> /\ cs = <<>> /\ ss = <<>> /\ tb = <<>> /\ sub = <<>> /\ sc = <<>> /\ ts = <<>> /\ td = <<>>
    /\ alg = "SA" /\ sv = <<>> /\ rn = <<>> /\ pc = "idle"
    /\ timeout = FALSE /\ visited = {}

SADGoCheckFails ==
    /\ sa.at = "idle"
    /\ ~SAD_GoCheck(sa)
    /\ sa' = [sa EXCEPT !.at = "error"]
    /\ UNCHANGED <<varsTL, varsRun, varsCP, varsSU, varsPar, sf, cs, ss, tb, sub, sc, ts, td>>

SADInitializeRun ==
    /\ sa.at = "idle"
    /\ SAD_GoCheck(sa)
    /\ \E st \in States, sample \in SUBSET GridMoves \ {{}},
          variance \in {0, MaxStartTemperature} :
         /\ sa.version = "runners" => sample = GridMoves
         /\ sa.version # "runners" => variance = 0
         /\ sa' = [SAD_InitializeRun(sa, st, sample, variance) EXCEPT !.at = "run"]
    /\ UNCHANGED <<varsTL, varsRun, varsCP, varsSU, varsPar, sf, cs, ss, tb, sub, sc, ts, td>>

SADRunning ==
    /\ sa.at = "run"
    /\ ~SAD_MaxIterationExpired(sa)
    /\ ~SAD_StopCriterion(sa)

\* one iteration whose move is accepted
SADAccept ==
    /\ SADRunning
    /\ \E mv \in GridMoves, lucky \in BOOLEAN :
         LET r1 == SAD_SelectMove(sa, mv)
         IN /\ SAD_AcceptableMove(r1, lucky)
            /\ sa' = SAD_Counters(SAD_UpdateIterationCounter(
                        SAD_StoreMove(SAD_CompleteMove(MoveRunner_MakeMove(r1)))))
    /\ UNCHANGED <<varsTL, varsRun, varsCP, varsSU, varsPar, sf, cs, ss, tb, sub, sc, ts, td>>

\* one iteration whose move is rejected
SADReject ==
    /\ SADRunning
    /\ \E mv \in GridMoves, lucky \in BOOLEAN :
         LET r1 == SAD_SelectMove(sa, mv)
         IN /\ ~SAD_AcceptableMove(r1, lucky)
            /\ sa' = SAD_Counters(SAD_UpdateIterationCounter(r1))
    /\ UNCHANGED <<varsTL, varsRun, varsCP, varsSU, varsPar, sf, cs, ss, tb, sub, sc, ts, td>>

SADTerminateRun ==
    /\ sa.at = "run"
    /\ SAD_MaxIterationExpired(sa) \/ SAD_StopCriterion(sa)
    /\ sa' = [sa EXCEPT !.at = "stopped"]
    /\ UNCHANGED <<varsTL, varsRun, varsCP, varsSU, varsPar, sf, cs, ss, tb, sub, sc, ts, td>>

SADNext ==
    \/ SADGoCheckFails \/ SADInitializeRun
    \/ SADAccept \/ SADReject \/ SADTerminateRun

InitSA == SADInitWith(Landscapes, CoolingRates, TRUE) /\ SADOthersIdle

SpecSA == InitSA /\ [][SADNext]_vars

\* the runs on Ridge with 0 < cooling_rate < 1 and no max_iteration, whose
\* iterations are always taken, as is their end
InitSAFair ==
    /\ SADInitWith({Ridge}, {rate \in CoolingRates : Positive(rate) /\ rate.n < rate.d},
                   FALSE)
    /\ SADOthersIdle

SADFairNext ==
    \/ SADInitializeRun
    \/ SADAccept \/ SADReject \/ SADTerminateRun

SpecSAFair ==
    InitSAFair /\ [][SADFairNext]_vars
               /\ WF_vars(SADAccept \/ SADReject) /\ WF_vars(SADTerminateRun)

\* C23: a run whose cooling_rate lies outside the open interval (0,1) is
\* rejected before its first iteration: a run that has been initialised has
\* 0 < cooling_rate < 1
C23_CoolingRateChecked ==
    sa.at \in {"run", "stopped"} =>
        Positive(sa.cooling_rate) /\ sa.cooling_rate.n < sa.cooling_rate.d

\* C28: at the end of every iteration neighbors_sampled is below
\* max_neighbors_sampled and neighbors_accepted is below
\* max_neighbors_accepted (the runners that keep these counters)
C28_CountersBelowMaxima ==
    (sa.version # "runners" /\ sa.at \in {"run", "stopped"}) =>
        /\ sa.neighbors_sampled < sa.max_neighbors_sampled
        /\ sa.neighbors_accepted < sa.max_neighbors_accepted

\* a run under way whose parameters are in their ranges
SAD_ValidRun ==
    /\ sa.at = "run"
    /\ Positive(sa.cooling_rate) /\ sa.cooling_rate.n < sa.cooling_rate.d
    /\ Positive(sa.min_temperature)

\* a run stopped at a temperature not above the minimum
SAD_StoppedCold ==
    sa.at = "stopped" /\ Leq(sa.temperature, sa.min_temperature)

\* C29: a run with 0 < cooling_rate < 1 and min_temperature > 0 reaches a
\* temperature <= min_temperature and stops, whatever moves are accepted
C29_MinTemperatureReached == SAD_ValidRun ~> SAD_StoppedCold

\* C30: after InitializeRun the temperature is strictly positive, also when
\* no start temperature is given and it is the largest delta cost sampled
C30_TemperaturePositive ==
    (sa.version # "runners" /\ sa.at = "run" /\ sa.number_of_iterations = 0) =>
        Positive(sa.temperature)

\* every move of the tuple is a move of its base on state_i, the input state
\* with the moves of the lower levels applied
CP_OnIntermediateStates(e, ms) ==
    \A i \in 1..Len(ms) :
        ms[i].move \in Neighborhood(e.kinds[i], CP_MakeMoveUpTo(e.st, ms, i - 1))

\* C25: in FirstMove of the CartesianProduct the move of level i is generated
\* by first_move of base i, and advanced by its next_move, on state_i, so the
\* chain FirstMove returns has at every level a move of base i on state_i
C25_FirstMoveOnStateI ==
    (cp.fn = "FirstMove" /\ cp.status = "returned") =>
        CP_OnIntermediateStates(ne, moves)

\* C26: NextMove of the CartesianProduct advances the last level, and the
\* levels it backtracks to or fills again, on state_i, so the chain NextMove
\* returns has at every level a move of base i on state_i
C26_NextMoveOnStateI ==
    (cp.fn = "NextMove" /\ cp.status = "returned") =>
        CP_OnIntermediateStates(ne, moves)

\* a call of RandomMove, once made, is run pass after pass
SpecCPFair == InitCP /\ [][CPNext]_vars /\ WF_vars(CPRandomLoop)

CP_RandomMoveRunning == cp.fn = "RandomMove" /\ cp.status = "running"

CP_RandomMoveOver == cp.fn = "RandomMove" /\ cp.status \in {"returned", "empty"}

\* C27: RandomMove of the CartesianProduct always terminates: it returns a
\* chain or throws EmptyNeighborhood
C27_RandomMoveTerminates == CP_RandomMoveRunning ~> CP_RandomMoveOver

(***************************************************************************)
(* Simulated annealing with a fixed budget: SimulatedAnnealingTimeBased    *)
(* ("timebased") and SimulatedAnnealingIterationBased of part_009          *)
(* ("part_009").  temperature_range is set and above 1/cooling_rate (below *)
(* it part_009 divides by zero), the clock counts milliseconds from        *)
(* run_start and whether a sampled move is accepted is left open.          *)
(***************************************************************************)
MaxRange == 5           \* largest temperature_range given to a run
MaxEvaluations == 4     \* largest max_evaluations given to a run
MaxDuration == 3        \* largest allowed running time, in clock ticks

TB_Versions == {"timebased", "part_009"}

RECURSIVE CeilLog(_, _, _)
\* ceil(-ln(range)/ln(rate)) for 0 < rate < 1: the least k >= from with
\* range * rate^k <= 1
CeilLog(range, rate, from) ==
    IF Leq(range, Frac(1, 1)) THEN from
    ELSE CeilLog(Times(range, rate), rate, from + 1)

\* the double -log(range)/log(rate) converted to unsigned, as part_009 does
TruncLog(range, rate) ==
    LET k == CeilLog(range, rate, 0)
        RECURSIVE Power(_)
        Power(i) == IF i = 0 THEN range ELSE Times(Power(i - 1), rate)
    IN IF Power(k) = Frac(1, 1) THEN k ELSE k - 1

TB_ExpectedNumberOfTemperatures(version, range, rate) ==
    IF version = "timebased" THEN CeilLog(range, rate, 0)
    ELSE TruncLog(range, rate)

TimedAnnealing(version, range, rate, ratio_set, max_evaluations, duration) ==
    [version |-> version, at |-> "idle",
     temperature_range |-> range, cooling_rate |-> rate,
     ratio_set |-> ratio_set, neighbors_accepted_ratio |-> Frac(1, 2),
     max_evaluations |-> max_evaluations, evaluations |-> 0,
     expected_number_of_temperatures |-> 0,
     max_neighbors_sampled |-> 0, max_neighbors_accepted |-> 0,
     neighbors_sampled |-> 0, neighbors_accepted |-> 0,
     number_of_temperatures |-> 0,
     now |-> 0, run_start |-> 0, temperature_start_time |-> 0,
     run_duration |-> duration, allowed_running_time_per_temperature |-> 0]

TB_InitializeRun(r) ==
    LET expected == TB_ExpectedNumberOfTemperatures(r.version, r.temperature_range,
                                                    r.cooling_rate)
        sampled == r.max_evaluations \div expected
        accepted == IF ~r.ratio_set THEN sampled
                    ELSE (sampled * r.neighbors_accepted_ratio.n)
                            \div r.neighbors_accepted_ratio.d
    IN [r EXCEPT !.at = "run",
                 !.expected_number_of_temperatures = expected,
                 !.max_neighbors_sampled = sampled,
                 !.max_neighbors_accepted = accepted,
                 !.allowed_running_time_per_temperature =
                     IF r.version = "timebased" THEN r.run_duration \div expected ELSE 0,
                 !.run_start = r.now,
                 !.temperature_start_time = r.now]

TB_StopCriterion(r) ==
    IF r.version = "timebased" THEN r.now > r.run_start + r.run_duration
    ELSE FALSE

\* MoveRunner's test of the budget, which the time-based runner overrides
TB_MaxEvaluationsExpired(r) ==
    IF r.version = "timebased" THEN FALSE
    ELSE r.evaluations >= r.max_evaluations

TB_CoolingNeeded(r) ==
    IF r.version = "timebased"
    THEN \/ r.now > r.temperature_start_time + r.allowed_running_time_per_temperature
         \/ r.neighbors_accepted >= r.max_neighbors_accepted
    ELSE \/ r.neighbors_sampled = r.max_neighbors_sampled
         \/ r.neighbors_accepted = r.max_neighbors_accepted

TB_CompleteIteration(r) ==
    IF TB_CoolingNeeded(r)
    THEN [r EXCEPT !.number_of_temperatures = @ + 1,
                   !.neighbors_sampled = 0,
                   !.neighbors_accepted = 0,
                   !.temperature_start_time = r.now]
    ELSE r

\* one pass of the loop of the runner: a move is sampled and evaluated,
\* made when accepted, and the iteration is completed
TB_Iteration(r, accepted) ==
    TB_CompleteIteration(
        [r EXCEPT !.evaluations = @ + 1,
                  !.neighbors_sampled = @ + 1,
                  !.neighbors_accepted = IF accepted THEN @ + 1 ELSE @])

TBInit ==
    /\ \E version \in TB_Versions, range \in 2..MaxRange, ratio_set \in BOOLEAN,
          max_evaluations \in 1..MaxEvaluations, duration \in 1..MaxDuration :
         tb = TimedAnnealing(version, Frac(range, 1), Frac(1, 2), ratio_set,
                             max_evaluations, duration)
    /\ TLIdle /\ RunIdle /\ CPIdle /\ SUIdle /\ ParIdle
    /\ sf = <<>> /\ cs = <<>> /\ ss = <<>> /\ sa = <<>> /\ sub = <<>> /\ sc = <<>> /\ ts = <<>> /\ td = <<>>

TBInitializeRun ==
    /\ tb.at = "idle"
    /\ tb' = TB_InitializeRun(tb)
    /\ UNCHANGED <<varsTL, varsRun, varsCP, varsSU, varsPar, sf, cs, ss, sa, sub, sc, ts, td>>

TBTerminate(r) == TB_MaxEvaluationsExpired(r) \/ TB_StopCriterion(r)

TBIterate ==
    /\ tb.at = "run"
    /\ ~TBTerminate(tb)
    /\ tb.evaluations <= MaxEvaluations
    /\ \E accepted \in BOOLEAN : tb' = TB_Iteration(tb, accepted)
    /\ UNCHANGED <<varsTL, varsRun, varsCP, varsSU, varsPar, sf, cs, ss, sa, sub, sc, ts, td>>

\* a millisecond passes during the run
TBClock ==
    /\ tb.at = "run"
    /\ tb.now <= tb.run_start + tb.run_duration
    /\ tb' = [tb EXCEPT !.now = @ + 1]
    /\ UNCHANGED <<varsTL, varsRun, varsCP, varsSU, varsPar, sf, cs, ss, sa, sub, sc, ts, td>>

TBTerminateRun ==
    /\ tb.at = "run"
    /\ TBTerminate(tb)
    /\ tb' = [tb EXCEPT !.at = "stopped"]
    /\ UNCHANGED <<varsTL, varsRun, varsCP, varsSU, varsPar, sf, cs, ss, sa, sub, sc, ts, td>>

TBNext == TBInitializeRun \/ TBIterate \/ TBClock \/ TBTerminateRun

SpecTimed == TBInit /\ [][TBNext]_vars

\* C31: the time-based run stops when max_evaluations is exhausted as well as
\* when its duration has elapsed: it never evaluates beyond its budget
C31_StopsAtBudget ==
    (tb.version = "timebased" /\ tb.at # "idle") =>
        tb.evaluations <= tb.max_evaluations

\* C32: both runners set expected_number_of_temperatures to
\* ceil(-ln(temperature_range)/ln(cooling_rate)) and max_neighbors_sampled to
\* max_evaluations / expected_number_of_temperatures
C32_ExpectedTemperatures ==
    tb.at # "idle" =>
        /\ tb.expected_number_of_temperatures =
               CeilLog(tb.temperature_range, tb.cooling_rate, 0)
        /\ tb.max_neighbors_sampled =
               tb.max_evaluations \div CeilLog(tb.temperature_range, tb.cooling_rate, 0)

(***************************************************************************)
(* Properties of the tabu lists of a BimodalTabuSearch run.                *)
(***************************************************************************)
ListItems(tl) == {tl.tlist[i] : i \in 1..Len(tl.tlist)}

\* the list own received the move mv and the list other received nothing
BTS_InsertedInto(own, own_after, other, other_after, mv) ==
    /\ ListItems(other_after) \subseteq ListItems(other)
    /\ \A item \in ListItems(own_after) \ ListItems(own) :
         item.elem = mv /\ item.out_iter >= own.iter

SFEvaluated == {i \in 1..sf.n : sf.mv[i].is_valid}

\* C34: the explored count a parallel selection returns is the number of
\* moves whose delta cost was evaluated during the call, whatever the
\* interleaving of the tasks
C34_ExploredCountsEvaluated ==
    /\ sf.explored = Cardinality({i \in 1..sf.n : sf.task[i] = "done"})
    /\ sf.result # <<>> => sf.explored = Cardinality(SFEvaluated)

\* a selection has returned after a cancellation: moves were evaluated after
\* the first accepted one was found, and one move was never evaluated
C34_Witness ==
    /\ sf.result # <<>>
    /\ sf.first_move_found
    /\ sf.explored >= 2
    /\ sf.explored < sf.n
    /\ sf.committed[1] = sf.first_move.move

(***************************************************************************)
(* Construction of a SetUnion explorer with a bias, in its two versions,   *)
(* and the choice of the base explorer RandomMove makes with the bias it   *)
(* holds (the rest of RandomMove is in SpecSU).  A bias is a sequence of   *)
(* weights; pick is the value drawn from 0 .. total_bias.                  *)
(***************************************************************************)
MaxBias == 2        \* largest weight of a bias

Biases == UNION {[1..n -> 1..MaxBias] : n \in 0..(MaxModality + 1)}

\* the constructor given a bias: the bias the explorer holds, or <<"thrown">>
\* when it throws std::logic_error (the uniform bias of 1/Modality each is
\* kept as the weight 1 each)
SU_Construct(version, modality, bias) ==
    IF version = "part_002" THEN <<"built", bias>>
    ELSE IF bias = <<>> THEN <<"built", [i \in 1..modality |-> 1]>>
    ELSE IF Len(bias) # modality THEN <<"thrown", <<>> >>
    ELSE <<"built", bias>>

RECURSIVE SU_SelectFrom(_, _, _)
\* while (pick > bias[selected]) { pick -= bias[selected]; selected++; }
\* reading past the end of bias is undefined
SU_SelectFrom(bias, pick, selected) ==
    IF selected >= Len(bias) THEN <<"undefined", selected>>
    ELSE IF pick > bias[selected + 1]
         THEN SU_SelectFrom(bias, pick - bias[selected + 1], selected + 1)
         ELSE <<"selected", selected>>

SUBInit ==
    /\ \E version \in SU_Versions, modality \in 1..MaxModality, bias \in Biases :
         sub = [version |-> version, modality |-> modality, given |-> bias,
                status |-> "unbuilt", bias |-> <<>>,
                selection |-> <<"none", 0>>]
    /\ TLIdle /\ RunIdle /\ CPIdle /\ SUIdle /\ ParIdle
    /\ sf = <<>> /\ cs = <<>> /\ ss = <<>> /\ sa = <<>> /\ tb = <<>> /\ sc = <<>> /\ ts = <<>> /\ td = <<>>

SUBConstruct ==
    /\ sub.status = "unbuilt"
    /\ LET built == SU_Construct(sub.version, sub.modality, sub.given)
       IN  sub' = [sub EXCEPT !.status = built[1], !.bias = built[2]]
    /\ UNCHANGED <<varsTL, varsRun, varsCP, varsSU, varsPar, sf, cs, ss, sa, tb, sc, ts, td>>

SUBSelect ==
    /\ sub.status = "built"
    /\ \E pick \in 0..SumUpTo(sub.bias, Len(sub.bias)) :
         sub' = [sub EXCEPT !.selection = SU_SelectFrom(sub.bias, pick, 0)]
    /\ UNCHANGED <<varsTL, varsRun, varsCP, varsSU, varsPar, sf, cs, ss, sa, tb, sc, ts, td>>

SUBNext == SUBConstruct \/ SUBSelect

SpecSUBias == SUBInit /\ [][SUBNext]_vars

\* C35: a SetUnion explorer is built only with an empty bias or with a bias of
\* as many entries as it has base explorers; any other length is rejected
C35_BiasLengthChecked ==
    /\ sub.status = "built" => Len(sub.given) \in {0, sub.modality}
    /\ sub.status = "thrown" => Len(sub.given) \notin {0, sub.modality}

\* C36: for weighted cost structures a and b, a + b is weighted and its
\* weighted value is the sum of those of a and b, and (a + b) - b has the
\* weighted value of the sum less that of b
C36_WeightedFollowsArithmetic ==
    (cs # <<>> /\ cs.call = "arith" /\ cs.cs1.is_weighted /\ cs.cs2.is_weighted) =>
        /\ cs.sum.is_weighted /\ cs.diff.is_weighted
        /\ cs.sum.weighted = cs.cs1.weighted + cs.cs2.weighted
        /\ cs.diff.weighted = cs.sum.weighted - cs.cs2.weighted

\* C37: for two hierarchical cost structures, whatever the lengths of their
\* component vectors, exactly one of a < b, a == b and b < a holds
C37_Trichotomy ==
    (cs # <<>> /\ cs.call = "order" /\ cs.regime = "hierarchical") =>
        Cardinality({i \in 1..3 : cs.order[i]}) = 1

(***************************************************************************)
(* Successive calls of Solve() and Resolve() on one solver.  The solver is *)
(* Interruptible: timeout_expired is the flag RaiseTimeout sets (the       *)
(* deadline of SyncRun, or a caller of RaiseTimeout) and ResetTimeout      *)
(* clears; Go() tests the flag before every iteration.                     *)
(***************************************************************************)
MaxCalls == 3           \* calls made on the solver
MaxCallIterations == 2  \* iterations of the run of one call

\* the function SyncRun runs on its worker: ResetTimeout(), then Go()
ALS_MakeFunction(s) == [s EXCEPT !.timeout_expired = FALSE]

\* Solve() and Resolve() up to the start of the run
ALS_Solve(s, entry) ==
    LET started == [s EXCEPT !.at = "go", !.entry = entry, !.iterations = 0,
                             !.calls = @ + 1]
    IN  IF s.timeout_set THEN ALS_MakeFunction(started) ELSE started

SCInit ==
    /\ \E timeout_set \in BOOLEAN :
         sc = [timeout_set |-> timeout_set, timeout_expired |-> FALSE,
               at |-> "idle", entry |-> "none", iterations |-> 0, calls |-> 0,
               ends |-> <<>>]
    /\ TLIdle /\ RunIdle /\ CPIdle /\ SUIdle /\ ParIdle
    /\ sf = <<>> /\ cs = <<>> /\ ss = <<>> /\ sa = <<>> /\ tb = <<>> /\ sub = <<>> /\ ts = <<>> /\ td = <<>>

\* the timeout parameter is given a value or is left as it is before a call
SCSetTimeout ==
    /\ sc.at = "idle" /\ ~sc.timeout_set
    /\ sc' = [sc EXCEPT !.timeout_set = TRUE]
    /\ UNCHANGED <<varsTL, varsRun, varsCP, varsSU, varsPar, sf, cs, ss, sa, tb, sub, ts, td>>

SCSolve ==
    /\ sc.at = "idle" /\ sc.calls < MaxCalls
    /\ \E entry \in {"Solve", "Resolve"} : sc' = ALS_Solve(sc, entry)
    /\ UNCHANGED <<varsTL, varsRun, varsCP, varsSU, varsPar, sf, cs, ss, sa, tb, sub, ts, td>>

\* one iteration of the run
SCIterate ==
    /\ sc.at = "go" /\ ~sc.timeout_expired
    /\ sc.iterations < MaxCallIterations
    /\ sc' = [sc EXCEPT !.iterations = @ + 1]
    /\ UNCHANGED <<varsTL, varsRun, varsCP, varsSU, varsPar, sf, cs, ss, sa, tb, sub, ts, td>>

\* the deadline of SyncRun elapses, or RaiseTimeout() is called on the solver
SCRaiseTimeout ==
    /\ sc.at = "go" /\ ~sc.timeout_expired
    /\ sc' = [sc EXCEPT !.timeout_expired = TRUE]
    /\ UNCHANGED <<varsTL, varsRun, varsCP, varsSU, varsPar, sf, cs, ss, sa, tb, sub, ts, td>>

\* Go() ends, on the flag or on the stop criterion of the runner, and the call
\* returns
SCReturn ==
    /\ sc.at = "go"
    /\ sc.timeout_expired \/ sc.iterations >= 1
    /\ sc' = [sc EXCEPT !.at = "idle",
                        !.ends = Append(@, <<sc.entry, sc.iterations>>)]
    /\ UNCHANGED <<varsTL, varsRun, varsCP, varsSU, varsPar, sf, cs, ss, sa, tb, sub, ts, td>>

SCNext == SCSetTimeout \/ SCSolve \/ SCIterate \/ SCRaiseTimeout \/ SCReturn

SpecCalls == SCInit /\ [][SCNext]_vars

\* C38: every call of Solve() or Resolve() starts its run with the timeout
\* flag cleared, whatever happened in the calls before it and whether a
\* timeout is configured or not
C38_RunStartsWithFlagCleared ==
    [][(sc.at = "idle" /\ sc'.at = "go") => ~sc'.timeout_expired]_vars

(***************************************************************************)
(* The chain of intermediate states of the Cartesian-product explorer of   *)
(* src/unnamed/part_002.  RandomMove and FirstMove build                   *)
(*     std::vector<State> temp_states(this->Modality(), State(this->in))   *)
(* and index it with operator[], which is not range-checked: an access at  *)
(* an index >= Modality() is undefined behaviour, after which the call may *)
(* do anything; the model stops the call there with status "undefined".    *)
(* Positions are counted from 0 as in the code; touched is the set of the  *)
(* indices of temp_states the call has read or written.                    *)
(***************************************************************************)
TS_Modality(c) == Len(c.kinds)

\* State(this->in): the state a fresh element of temp_states holds
TS_FreshState == [b \in 1..NumBits |-> 0]

\* the locals of a call after  temp_states(Modality(), State(in));
\* temp_states[0] = st;
TS_Begin(fn, e) ==
    [fn |-> fn, kinds |-> e.kinds, related_funcs |-> e.related_funcs,
     st |-> e.st,
     temp_states |-> [k \in 1..Len(e.kinds) |-> IF k = 1 THEN e.st ELSE TS_FreshState],
     ms |-> FreshMoves(Len(e.kinds)), i |-> 0, at |-> "begun", touched |-> {0}]

\* temp_states[to] = temp_states[from]
TS_Assign(c, to, from) ==
    IF to >= TS_Modality(c) \/ from >= TS_Modality(c)
    THEN [c EXCEPT !.at = "undefined", !.touched = @ \cup {to, from}]
    ELSE [c EXCEPT !.temp_states[to + 1] = c.temp_states[from + 1],
                   !.touched = @ \cup {to, from}]

\* ExecuteAt(temp_states[level + 1], r_moves, nhes, make_move, level)
TS_MakeMoveAt(c, level) ==
    [c EXCEPT !.temp_states[level + 2] = Base_MakeMove(@, c.ms[level + 1].move),
              !.touched = @ \cup {level + 1}]

\* CompareMovesAt(temp_states[level], r_moves, *this, level) with the move
\* at level replaced by mv: level 0 has no previous move to be related to
TS_CompareMovesAt(c, level, mv) ==
    IF level = 0 THEN TRUE
    ELSE IF c.related_funcs = "none" THEN TRUE
    ELSE Related(c.related_funcs, c.ms[level].move, mv)

\* repeated try_next_move at level from the move mv until the move is
\* related to the previous one or the base neighbourhood is exhausted; the
\* move stays at the last one the base explorer produced
RECURSIVE TS_TryNextMoves(_, _, _)
TS_TryNextMoves(c, level, mv) ==
    LET next == Base_NextMove(c.kinds[level + 1], c.temp_states[level + 1], mv)
    IN  IF next = <<>> THEN [found |-> FALSE, move |-> mv]
        ELSE IF TS_CompareMovesAt(c, level, next[1]) THEN [found |-> TRUE, move |-> next[1]]
        ELSE TS_TryNextMoves(c, level, next[1])

\* RandomMove up to the loop: the first random move, made on temp_states[1]
TS_RandomMove(e, draw) ==
    LET c == TS_Assign(TS_Begin("RandomMove", e), 1, 0)
    IN  IF c.at = "undefined" THEN c
        ELSE IF draw = <<>> THEN [c EXCEPT !.at = "empty"]
        ELSE TS_MakeMoveAt([c EXCEPT !.ms[1] = ActiveMove(draw[1], TRUE),
                                     !.i = 1, !.at = "random"], 0)

\* one pass of the for loop of RandomMove; draw is the move the do-while
\* leaves with, <<>> when the base neighbourhood is empty
TS_RandomPass(c, draw) ==
    IF c.i >= TS_Modality(c) THEN [c EXCEPT !.at = "returned"]
    ELSE LET d == TS_Assign(c, c.i + 1, c.i)
         IN  IF d.at = "undefined" THEN d
             ELSE IF draw = <<>> THEN [d EXCEPT !.at = "empty"]
             ELSE IF draw = <<0>> THEN [d EXCEPT !.at = "spinning"]
             ELSE [TS_MakeMoveAt([d EXCEPT !.ms[c.i + 1] = ActiveMove(draw[1], TRUE)], c.i)
                      EXCEPT !.i = c.i + 1]

\* the moves the do-while of RandomMove can leave with at level c.i: <<>>
\* when random_move throws, <<0>> when no move of the neighbourhood is
\* related to the previous move and the loop draws for ever
TS_RandomDraws(c) ==
    IF c.i >= TS_Modality(c) \/ c.i + 1 >= TS_Modality(c) THEN {<<>>}
    ELSE LET all == Base_RandomMove(c.kinds[c.i + 1], c.temp_states[c.i + 1])
             good == {d \in all : d # <<>> /\ TS_CompareMovesAt(c, c.i, d[1])}
         IN  IF all = {<<>>} THEN {<<>>}
             ELSE IF good = {} THEN {<<0>>}
             ELSE good

\* FirstMove up to the loop
TS_FirstMove(e) ==
    LET c == TS_Assign(TS_Begin("FirstMove", e), 1, 0)
        first == Base_FirstMove(e.kinds[1], e.st)
    IN  IF c.at = "undefined" THEN c
        ELSE IF first = <<>> THEN [c EXCEPT !.at = "empty"]
        ELSE IF TS_Modality(c) = 1
             THEN [c EXCEPT !.ms[1] = ActiveMove(first[1], TRUE), !.at = "returned"]
        ELSE TS_MakeMoveAt([c EXCEPT !.ms[1] = ActiveMove(first[1], TRUE),
                                     !.i = 1, !.at = "try"], 0)

\* the move is in place at level c.i: return at the last level, else copy
\* the state forward, make the move on the copy and go one level up
TS_Dispatched(c, mv) ==
    LET d == [c EXCEPT !.ms[c.i + 1] = ActiveMove(mv, TRUE),
                       !.touched = @ \cup {c.i}]
    IN  IF c.i = TS_Modality(c) - 1 THEN [d EXCEPT !.at = "returned"]
        ELSE LET a == TS_Assign(d, c.i + 1, c.i)
             IN  IF a.at = "undefined" THEN a
                 ELSE [TS_MakeMoveAt(a, c.i) EXCEPT !.i = c.i + 1]

\* one pass of the while loop of FirstMove through its try block
TS_Try(c) ==
    IF c.i >= TS_Modality(c) THEN [c EXCEPT !.at = "returned"]
    ELSE LET first == Base_FirstMove(c.kinds[c.i + 1], c.temp_states[c.i + 1])
             thrown == [c EXCEPT !.at = "catch", !.touched = @ \cup {c.i}]
         IN  IF first = <<>> THEN thrown
             ELSE IF TS_CompareMovesAt(c, c.i, first[1]) THEN TS_Dispatched(c, first[1])
             ELSE LET r == TS_TryNextMoves(c, c.i, first[1])
                  IN  IF r.found THEN TS_Dispatched(c, r.move)
                      ELSE [thrown EXCEPT !.ms[c.i + 1] = ActiveMove(r.move, FALSE)]

\* one pass of the while (i > 0) loop of the catch block of FirstMove
TS_Catch(c) ==
    IF c.i = 0 THEN [c EXCEPT !.i = 1, !.at = "try"]
    ELSE LET level == c.i - 1
             a == TS_Assign([c EXCEPT !.i = level], level + 1, level)
             r == TS_TryNextMoves(a, level, a.ms[level + 1].move)
         IN  IF a.at = "undefined" THEN a
             ELSE IF r.found
                  THEN [TS_MakeMoveAt([a EXCEPT !.ms[level + 1] = ActiveMove(r.move, TRUE)], level)
                           EXCEPT !.i = level + 1, !.at = "try"]
             ELSE IF ~TS_CompareMovesAt(a, level, r.move)
                  THEN [a EXCEPT !.ms[level + 1] = ActiveMove(r.move, FALSE), !.at = "spinning"]
             ELSE IF level = 0
                  THEN [a EXCEPT !.ms[level + 1] = ActiveMove(r.move, FALSE), !.at = "empty"]
             ELSE [a EXCEPT !.ms[level + 1] = ActiveMove(r.move, FALSE)]

TSInit ==
    /\ \E e \in [kinds : UNION {[1..n -> Kinds] : n \in 1..MaxModality},
                 related_funcs : {"none", "distinct", "ascending"},
                 st : BitStates] :
         ts = [TS_Begin("none", e) EXCEPT !.at = "idle", !.touched = {}]
    /\ TLIdle /\ RunIdle /\ CPIdle /\ SUIdle /\ ParIdle
    /\ sf = <<>> /\ cs = <<>> /\ ss = <<>> /\ sa = <<>> /\ tb = <<>> /\ sub = <<>>
    /\ sc = <<>> /\ td = <<>>

TSCallRandomMove ==
    /\ ts.at = "idle"
    /\ \E draw \in Base_RandomMove(ts.kinds[1], ts.st) : ts' = TS_RandomMove(ts, draw)
    /\ UNCHANGED <<varsTL, varsRun, varsCP, varsSU, varsPar, sf, cs, ss, sa, tb, sub, sc, td>>

TSRandomPass ==
    /\ ts.at = "random"
    /\ \E draw \in TS_RandomDraws(ts) : ts' = TS_RandomPass(ts, draw)
    /\ UNCHANGED <<varsTL, varsRun, varsCP, varsSU, varsPar, sf, cs, ss, sa, tb, sub, sc, td>>

TSCallFirstMove ==
    /\ ts.at = "idle"
    /\ ts' = TS_FirstMove(ts)
    /\ UNCHANGED <<varsTL, varsRun, varsCP, varsSU, varsPar, sf, cs, ss, sa, tb, sub, sc, td>>

TSTry ==
    /\ ts.at = "try"
    /\ ts' = TS_Try(ts)
    /\ UNCHANGED <<varsTL, varsRun, varsCP, varsSU, varsPar, sf, cs, ss, sa, tb, sub, sc, td>>

TSCatch ==
    /\ ts.at = "catch"
    /\ ts' = TS_Catch(ts)
    /\ UNCHANGED <<varsTL, varsRun, varsCP, varsSU, varsPar, sf, cs, ss, sa, tb, sub, sc, td>>

TSNext == TSCallRandomMove \/ TSRandomPass \/ TSCallFirstMove \/ TSTry \/ TSCatch

SpecChain == TSInit /\ [][TSNext]_vars

(***************************************************************************)
(* C39: in random_move and in first_move the Cartesian-product explorer    *)
(* reads and writes its chain of intermediate states only at the indices   *)
(* 0..N-1, for every modality N >= 1.                                      *)
(***************************************************************************)
C39_ChainWithinBounds ==
    ts.at # "idle" => \A k \in ts.touched : k < TS_Modality(ts)

(***************************************************************************)
(* The checks of the TupleDispatcher of src/unnamed/part_002 over a tuple  *)
(* of moves.  The dispatcher is instantiated at the last position of the   *)
(* tuple and recurses towards position 0, its base case.  The predicate is *)
(* the Call IS_ACTIVE, which returns the active flag of the move.          *)
(***************************************************************************)
MaxTuple == 3       \* largest tuple of moves given to a check

IsActive(m) == m.active

\* TupleDispatcher<..., N>::CheckAll; TupleDispatcher<..., 0>::CheckAll
RECURSIVE TD_CheckAll(_, _)
TD_CheckAll(temp_moves, N) ==
    IF N = 0 THEN IsActive(temp_moves[1])
    ELSE IF ~IsActive(temp_moves[N + 1]) THEN FALSE
    ELSE TD_CheckAll(temp_moves, N - 1)

\* TupleDispatcher<..., N>::CheckAny; TupleDispatcher<..., 0>::CheckAny
TD_CheckAny(temp_moves, N) ==
    IF N = 0 THEN IsActive(temp_moves[1])
    ELSE IF IsActive(temp_moves[N + 1]) THEN TRUE
    ELSE TD_CheckAll(temp_moves, N - 1)

\* the entry points: the dispatcher of the last position
CheckAll(ms) == TD_CheckAll(ms, Len(ms) - 1)

CheckAny(ms) == TD_CheckAny(ms, Len(ms) - 1)

TDInit ==
    /\ \E n \in 1..MaxTuple :
         \E ms \in [1..n -> [move : 1..NumBits, active : BOOLEAN]] :
            td = [moves |-> ms, call |-> "none", result |-> FALSE]
    /\ TLIdle /\ RunIdle /\ CPIdle /\ SUIdle /\ ParIdle
    /\ sf = <<>> /\ cs = <<>> /\ ss = <<>> /\ sa = <<>> /\ tb = <<>> /\ sub = <<>>
    /\ sc = <<>> /\ ts = <<>>

TDCheckAll ==
    /\ td' = [td EXCEPT !.call = "CheckAll", !.result = CheckAll(td.moves)]
    /\ UNCHANGED <<varsTL, varsRun, varsCP, varsSU, varsPar, sf, cs, ss, sa, tb, sub, sc, ts>>

TDCheckAny ==
    /\ td' = [td EXCEPT !.call = "CheckAny", !.result = CheckAny(td.moves)]
    /\ UNCHANGED <<varsTL, varsRun, varsCP, varsSU, varsPar, sf, cs, ss, sa, tb, sub, sc, ts>>

TDNext == TDCheckAll \/ TDCheckAny

SpecDispatch == TDInit /\ [][TDNext]_vars

(***************************************************************************)
(* C40: CheckAny over a tuple of moves returns true if and only if at      *)
(* least one element of the tuple satisfies the predicate.                 *)
(***************************************************************************)
C40_CheckAnyIsExists ==
    td.call = "CheckAny" =>
        (td.result <=> \E k \in DOMAIN td.moves : IsActive(td.moves[k]))

====
